---- MODULE Spec2Model ----
(***************************************************************************)
(* A model of the GDScript compiler pipeline: Lexer (lexer.cpp), Parser    *)
(* (parser.cpp), SemanticAnalyzer (semantic_analyzer.cpp), and the driver  *)
(* GDScriptCompiler::compile (main.cpp).  Source text is a TLA+ string;    *)
(* a character is a string of length one, obtained with SubSeq.            *)
(***************************************************************************)
EXTENDS Integers, Sequences, FiniteSets, TLC

VARIABLES
    lexer,      \* the Lexer object: source, current, line, column, tokens, errors, indent_stack
    lpc,        \* position of Lexer::tokenize: "scan" (in the while loop), "done" (returned), "idle"
    parser,     \* the Parser object and the locals of Parser::parse
    ppc,        \* position of Parser::parse: "loop", "hung", "done", "idle"
    analyzer,   \* the SemanticAnalyzer object
    apc,        \* position of SemanticAnalyzer::analyze: "run", "done", "idle"
    todo,       \* statements of the Program that analyzeProgram, and later
                \* generateProgram, has not visited yet
    driver,     \* GDScriptCompiler::compile: phase, products of the phases, exit code
    generator,  \* the CodeGenerator object
    gpc         \* position of CodeGenerator::generate: "program", "main", "optimize",
                \* "write", "done", "idle"

vars == <<lexer, lpc, parser, ppc, analyzer, apc, todo, driver, generator, gpc>>

(***************************************************************************)
(* Bounds of the model.                                                    *)
(***************************************************************************)
MaxWords == 3

(***************************************************************************)
(* Characters.                                                             *)
(***************************************************************************)
NUL == ""

CharAt(s, i) == SubSeq(s, i, i)

Lower == {"a","b","c","d","e","f","g","h","i","j","k","l","m",
          "n","o","p","q","r","s","t","u","v","w","x","y","z"}
Upper == {"A","B","C","D","E","F","G","H","I","J","K","L","M",
          "N","O","P","Q","R","S","T","U","V","W","X","Y","Z"}
DigitChars == {"0","1","2","3","4","5","6","7","8","9"}

isAlpha(c) == c \in Lower \cup Upper \cup {"_"}

isDigit(c) == c \in DigitChars

isAlphaNumeric(c) == isAlpha(c) \/ isDigit(c)

(***************************************************************************)
(* Lexer (lexer.cpp).                                                      *)
(***************************************************************************)
keywords ==
    [k \in {"if","elif","else","for","while","match","when","break","continue",
            "pass","return","class","class_name","extends","is","in","as","self",
            "super","signal","func","static","const","enum","var","breakpoint",
            "preload","await","yield","assert","void","and","or","not","lambda",
            "true","false","null"} |->
        CASE k = "if" -> "IF" [] k = "elif" -> "ELIF" [] k = "else" -> "ELSE"
          [] k = "for" -> "FOR" [] k = "while" -> "WHILE" [] k = "match" -> "MATCH"
          [] k = "when" -> "WHEN" [] k = "break" -> "BREAK" [] k = "continue" -> "CONTINUE"
          [] k = "pass" -> "PASS" [] k = "return" -> "RETURN" [] k = "class" -> "CLASS"
          [] k = "class_name" -> "CLASS_NAME" [] k = "extends" -> "EXTENDS"
          [] k = "is" -> "IS" [] k = "in" -> "IN" [] k = "as" -> "AS"
          [] k = "self" -> "SELF" [] k = "super" -> "SUPER" [] k = "signal" -> "SIGNAL"
          [] k = "func" -> "FUNC" [] k = "static" -> "STATIC" [] k = "const" -> "CONST"
          [] k = "enum" -> "ENUM" [] k = "var" -> "VAR" [] k = "breakpoint" -> "BREAKPOINT"
          [] k = "preload" -> "PRELOAD" [] k = "await" -> "AWAIT" [] k = "yield" -> "YIELD"
          [] k = "assert" -> "ASSERT" [] k = "void" -> "VOID" [] k = "and" -> "AND"
          [] k = "or" -> "OR" [] k = "not" -> "NOT" [] k = "lambda" -> "LAMBDA"
          [] k = "true" -> "BOOLEAN" [] k = "false" -> "BOOLEAN"
          [] k = "null" -> "NULL_LITERAL"]

Lexer(src) ==
    [source |-> src, current |-> 0, line |-> 1, column |-> 1,
     tokens |-> <<>>, errors |-> <<>>, indent_stack |-> <<0>>]

Lexer_isAtEnd(L) == L.current >= Len(L.source)

Lexer_peek(L, offset) ==
    IF L.current + offset >= Len(L.source) THEN NUL
    ELSE CharAt(L.source, L.current + offset + 1)

Lexer_advance(L) ==
    IF Lexer_isAtEnd(L) THEN L
    ELSE IF Lexer_peek(L, 0) = "\n"
         THEN [L EXCEPT !.current = @ + 1, !.line = @ + 1, !.column = 1]
         ELSE [L EXCEPT !.current = @ + 1, !.column = @ + 1]

Lexer_addToken(L, type, value) ==
    [L EXCEPT !.tokens = Append(@, [type |-> type, value |-> value,
                                    line |-> L.line, column |-> L.column])]

\* an error that discards the tokens scanned so far
Lexer_addError_dropTokens(L, message) ==
    [L EXCEPT !.tokens = <<>>,
              !.errors = Append(@, [line |-> L.line, column |-> L.column,
                                    message |-> message])]

Lexer_addError(L, message) ==
    [L EXCEPT !.errors = Append(@, [line |-> L.line, column |-> L.column,
                                    message |-> message])]

\* the character appended to the value for an escape sequence
Escaped(c) ==
    CASE c = "n" -> "\n" [] c = "t" -> "\t" [] c = "r" -> "\r" [] OTHER -> c

RECURSIVE scanStringLoop(_, _, _)
scanStringLoop(L, quote, value) ==
    IF Lexer_peek(L, 0) /= quote /\ ~Lexer_isAtEnd(L)
    THEN LET L1 == IF Lexer_peek(L, 0) = "\n"
                   THEN [L EXCEPT !.line = @ + 1, !.column = 1] ELSE L
         IN  IF Lexer_peek(L1, 0) = "\\"
             THEN LET L2 == Lexer_advance(L1)
                  IN  scanStringLoop(Lexer_advance(L2), quote,
                                     value \o Escaped(Lexer_peek(L2, 0)))
             ELSE scanStringLoop(Lexer_advance(L1), quote, value \o Lexer_peek(L1, 0))
    ELSE [L |-> L, value |-> value]

Lexer_scanString(L, quote) ==
    LET r == scanStringLoop(L, quote, "")
    IN  IF Lexer_isAtEnd(r.L) THEN Lexer_addError(r.L, "Unterminated string")
        ELSE Lexer_addToken(Lexer_advance(r.L), "STRING", r.value)

\* while (isDigit(peek())) value += advance();
RECURSIVE scanDigits(_, _)
scanDigits(L, value) ==
    IF isDigit(Lexer_peek(L, 0))
    THEN scanDigits(Lexer_advance(L), value \o Lexer_peek(L, 0))
    ELSE [L |-> L, value |-> value]

Lexer_scanNumber(L) ==
    LET a == scanDigits(L, "")
        hasFrac == Lexer_peek(a.L, 0) = "." /\ isDigit(Lexer_peek(a.L, 1))
        b == IF hasFrac THEN scanDigits(Lexer_advance(a.L), a.value \o ".") ELSE a
        hasExp == Lexer_peek(b.L, 0) \in {"e", "E"}
        c1 == [L |-> Lexer_advance(b.L), value |-> b.value \o Lexer_peek(b.L, 0)]
        c2 == IF Lexer_peek(c1.L, 0) \in {"+", "-"}
              THEN [L |-> Lexer_advance(c1.L), value |-> c1.value \o Lexer_peek(c1.L, 0)]
              ELSE c1
        c == IF hasExp THEN scanDigits(c2.L, c2.value) ELSE b
    IN  Lexer_addToken(c.L, IF hasFrac \/ hasExp THEN "FLOAT" ELSE "INTEGER", c.value)

RECURSIVE scanAlnum(_, _)
scanAlnum(L, value) ==
    IF isAlphaNumeric(Lexer_peek(L, 0))
    THEN scanAlnum(Lexer_advance(L), value \o Lexer_peek(L, 0))
    ELSE [L |-> L, value |-> value]

Lexer_scanIdentifier(L) ==
    LET r == scanAlnum(L, "")
    IN  Lexer_addToken(r.L, IF r.value \in DOMAIN keywords THEN keywords[r.value]
                            ELSE "IDENTIFIER", r.value)

RECURSIVE Lexer_scanComment(_)
Lexer_scanComment(L) ==
    IF Lexer_peek(L, 0) /= "\n" /\ ~Lexer_isAtEnd(L)
    THEN Lexer_scanComment(Lexer_advance(L)) ELSE L

TabWidth == 4

\* the leading-whitespace loop of handleIndentation
RECURSIVE countIndent(_, _)
countIndent(L, level) ==
    IF Lexer_peek(L, 0) = " " THEN countIndent(Lexer_advance(L), level + 1)
    ELSE IF Lexer_peek(L, 0) = "\t" THEN countIndent(Lexer_advance(L), level + TabWidth)
    ELSE [L |-> L, level |-> level]

Last(s) == s[Len(s)]
Front(s) == SubSeq(s, 1, Len(s) - 1)

\* a dedenting line that closes several levels emits a single DEDENT
RECURSIVE popIndents_oneDedent(_, _)
popIndents_oneDedent(L, level) ==
    IF L.indent_stack /= <<>> /\ Last(L.indent_stack) > level
    THEN LET L1 == [L EXCEPT !.indent_stack = Front(@)]
         IN  IF L1.indent_stack /= <<>> /\ Last(L1.indent_stack) > level
             THEN popIndents_oneDedent(L1, level)
             ELSE Lexer_addToken(L1, "DEDENT", "")
    ELSE L

\* while (!indent_stack.empty() && indent_stack.back() > indent_level) { pop; DEDENT }
RECURSIVE popIndents(_, _)
popIndents(L, level) ==
    IF L.indent_stack /= <<>> /\ Last(L.indent_stack) > level
    THEN popIndents(Lexer_addToken([L EXCEPT !.indent_stack = Front(@)], "DEDENT", ""), level)
    ELSE L

Lexer_handleIndentation(L) ==
    LET r == countIndent(L, 0)
        L1 == r.L
        indent_level == r.level
        current_indent == Last(L1.indent_stack)
    IN  IF Lexer_peek(L1, 0) = "\n" \/ Lexer_peek(L1, 0) = "#" THEN L1
        ELSE IF indent_level > current_indent
             THEN Lexer_addToken([L1 EXCEPT !.indent_stack = Append(@, indent_level)],
                                 "INDENT", "")
        ELSE IF indent_level < current_indent
             THEN LET L2 == popIndents(L1, indent_level)
                  IN  IF L2.indent_stack = <<>> \/ Last(L2.indent_stack) /= indent_level
                      THEN Lexer_addError(L2, "Invalid indentation level")
                      ELSE L2
        ELSE L1

\* case c: if (peek() == second) { advance(); addToken(two) } else addToken(one)
TwoCharOp(L, second, two, one) ==
    IF Lexer_peek(L, 0) = second THEN Lexer_addToken(Lexer_advance(L), two, "")
    ELSE Lexer_addToken(L, one, "")

SingleCharTokens ==
    [c \in {"(", ")", "[", "]", "{", "}", ",", ".", ";", "$", "^", "~"} |->
        CASE c = "(" -> "LEFT_PAREN" [] c = ")" -> "RIGHT_PAREN"
          [] c = "[" -> "LEFT_BRACKET" [] c = "]" -> "RIGHT_BRACKET"
          [] c = "{" -> "LEFT_BRACE" [] c = "}" -> "RIGHT_BRACE"
          [] c = "," -> "COMMA" [] c = "." -> "DOT" [] c = ";" -> "SEMICOLON"
          [] c = "$" -> "DOLLAR" [] c = "^" -> "BITWISE_XOR" [] c = "~" -> "BITWISE_NOT"]

Lexer_scanToken(L0) ==
    LET c == Lexer_peek(L0, 0)
        L == Lexer_advance(L0)
    IN  CASE c \in {" ", "\r", "\t"} -> L
          [] c = "\n" -> Lexer_handleIndentation(Lexer_addToken(L, "NEWLINE", ""))
          [] c = "#" -> Lexer_scanComment(L)
          [] c = "@" ->
                IF isAlpha(Lexer_peek(L, 0))
                THEN LET r == scanAlnum(L, "@") IN Lexer_addToken(r.L, "ANNOTATION", r.value)
                ELSE Lexer_addError(L, "Invalid annotation")
          [] c \in DOMAIN SingleCharTokens -> Lexer_addToken(L, SingleCharTokens[c], "")
          [] c = ":" -> TwoCharOp(L, "=", "TYPE_INFER_ASSIGN", "COLON")
          [] c = "+" -> TwoCharOp(L, "=", "PLUS_ASSIGN", "PLUS")
          [] c = "-" ->
                IF Lexer_peek(L, 0) = ">" THEN Lexer_addToken(Lexer_advance(L), "ARROW", "")
                ELSE TwoCharOp(L, "=", "MINUS_ASSIGN", "MINUS")
          [] c = "*" -> TwoCharOp(L, "=", "MULTIPLY_ASSIGN", "MULTIPLY")
          [] c = "/" -> TwoCharOp(L, "=", "DIVIDE_ASSIGN", "DIVIDE")
          [] c = "%" -> TwoCharOp(L, "=", "MODULO_ASSIGN", "MODULO")
          [] c = "=" -> TwoCharOp(L, "=", "EQUAL", "ASSIGN")
          [] c = "!" -> TwoCharOp(L, "=", "NOT_EQUAL", "LOGICAL_NOT")
          [] c = "<" ->
                IF Lexer_peek(L, 0) = "<" THEN Lexer_addToken(Lexer_advance(L), "LEFT_SHIFT", "")
                ELSE TwoCharOp(L, "=", "LESS_EQUAL", "LESS")
          [] c = ">" ->
                IF Lexer_peek(L, 0) = ">" THEN Lexer_addToken(Lexer_advance(L), "RIGHT_SHIFT", "")
                ELSE TwoCharOp(L, "=", "GREATER_EQUAL", "GREATER")
          [] c = "&" -> TwoCharOp(L, "&", "LOGICAL_AND", "BITWISE_AND")
          [] c = "|" -> TwoCharOp(L, "|", "LOGICAL_OR", "BITWISE_OR")
          [] c \in {"\"", "'"} -> Lexer_scanString(L, c)
          [] OTHER ->
                \* current--; column--; then scanNumber / scanIdentifier
                IF isDigit(c) THEN Lexer_scanNumber([L EXCEPT !.current = @ - 1, !.column = @ - 1])
                ELSE IF isAlpha(c)
                     THEN Lexer_scanIdentifier([L EXCEPT !.current = @ - 1, !.column = @ - 1])
                ELSE Lexer_addError(L, "Unexpected character: " \o c)

\* while (indent_stack.size() > 1) { pop; DEDENT }
RECURSIVE finalDedents(_)
finalDedents(L) ==
    IF Len(L.indent_stack) > 1
    THEN finalDedents(Lexer_addToken([L EXCEPT !.indent_stack = Front(@)], "DEDENT", ""))
    ELSE L

\* Lexer::tokenize after its scanning loop
Lexer_tokenize_tail(L) ==
    LET L1 == IF L.tokens /= <<>> /\ Last(L.tokens).type /= "NEWLINE"
              THEN Lexer_addToken(L, "NEWLINE", "") ELSE L
    IN  Lexer_addToken(finalDedents(L1), "EOF_TOKEN", "")

Lexer_hasErrors(L) == L.errors /= <<>>

(***************************************************************************)
(* AST (parser.h).  No call of a node constructor in parser.cpp passes a   *)
(* line or a column, so every node is built with the defaults of the       *)
(* constructors' parameters l and c.                                       *)
(***************************************************************************)
DefaultLine == 0
DefaultColumn == 0

ASTNode(t, l, c) == [type |-> t, line |-> l, column |-> c]

\* std::make_unique<T>(fields...), line and column defaulted
MakeNode(t, fields) == ASTNode(t, DefaultLine, DefaultColumn) @@ fields

NULL == [type |-> "NULL"]

IsNull(n) == n.type = "NULL"

DeclarationTypes ==
    {"VAR_DECL", "CONST_DECL", "FUNC_DECL", "CLASS_DECL", "ENUM_DECL", "SIGNAL_DECL"}

(***************************************************************************)
(* Parser (parser.cpp).  A parser value P is the Parser object; an         *)
(* operator that parses returns Ret(P, node).  P.hung is set when control  *)
(* enters a loop iteration that ends where it began: that loop never       *)
(* exits.  From then on P is frozen (peek answers EOF, nothing is added).  *)
(***************************************************************************)
Parser(toks) == [tokens |-> toks, current |-> 0, errors |-> <<>>, hung |-> FALSE]

Ret(P, node) == [P |-> P, node |-> node]

\* a local of the C++ code that holds the result of a call: v is computed,
\* then named in F
With(v, F(_)) == CHOOSE r \in {F(x) : x \in {v}} : TRUE

Parser_peek(P) ==
    IF P.hung \/ P.current >= Len(P.tokens)
    THEN [type |-> "EOF_TOKEN", value |-> "", line |-> 0, column |-> 0]
    ELSE P.tokens[P.current + 1]

Parser_isAtEnd(P) == Parser_peek(P).type = "EOF_TOKEN"

Parser_advance(P) == IF ~Parser_isAtEnd(P) THEN [P EXCEPT !.current = @ + 1] ELSE P

\* tokens[current - 1]
Parser_previous(P) == P.tokens[P.current]

Parser_check(P, type) == ~Parser_isAtEnd(P) /\ Parser_peek(P).type = type

\* the test of match({types...}); the caller advances when it holds
Parser_match(P, types) == ~Parser_isAtEnd(P) /\ Parser_peek(P).type \in types

Parser_addError(P, message) ==
    IF P.hung THEN P ELSE [P EXCEPT !.errors = Append(@, message)]

Parser_consume(P, type, message) ==
    IF Parser_check(P, type) THEN Parser_advance(P)
    ELSE Parser_advance(Parser_addError(P,
             message \o " at line " \o ToString(Parser_peek(P).line)))

\* while (match({types...})) {}
RECURSIVE SkipWhile(_, _)
SkipWhile(P, types) ==
    IF Parser_match(P, types) THEN SkipWhile(Parser_advance(P), types) ELSE P

\* the binary levels from logicalOr (1) down to factor (6): operators, and
\* whether a null operand makes the level return nullptr
\* the levels with term and factor exchanged
LevelOps_termBelowFactor ==
    <<{"OR", "LOGICAL_OR"}, {"AND", "LOGICAL_AND"}, {"EQUAL", "NOT_EQUAL"},
      {"GREATER", "GREATER_EQUAL", "LESS", "LESS_EQUAL", "IN"},
      {"DIVIDE", "MULTIPLY", "MODULO"}, {"MINUS", "PLUS"}>>

LevelOps ==
    <<{"OR", "LOGICAL_OR"}, {"AND", "LOGICAL_AND"}, {"EQUAL", "NOT_EQUAL"},
      {"GREATER", "GREATER_EQUAL", "LESS", "LESS_EQUAL", "IN"},
      {"MINUS", "PLUS"}, {"DIVIDE", "MULTIPLY", "MODULO"}>>

LevelChecksNull == <<TRUE, FALSE, FALSE, FALSE, FALSE, TRUE>>

AssignOps ==
    {"ASSIGN", "TYPE_INFER_ASSIGN", "PLUS_ASSIGN", "MINUS_ASSIGN",
     "MULTIPLY_ASSIGN", "DIVIDE_ASSIGN", "MODULO_ASSIGN"}

RECURSIVE Parser_expression(_), Parser_ternary(_), BinaryLevel(_, _), Climb(_, _, _),
          BinaryLoop(_, _, _),
          Parser_unary(_), Parser_call(_), CallLoop(_, _), Parser_primary(_),
          ArrayElements(_, _), DictPairs(_, _), Parser_parameters(_), ParameterLoop(_, _),
          Parser_arguments(_), ArgumentLoop(_, _)

\* expression() is assignment()
Parser_expression(P) ==
    With(Parser_ternary(P), LAMBDA e :
        IF IsNull(e.node) THEN Ret(e.P, NULL)
        ELSE IF Parser_match(e.P, AssignOps)
        THEN With(Parser_expression(Parser_advance(e.P)), LAMBDA v :
                 IF IsNull(v.node) THEN Ret(v.P, NULL)
                 ELSE Ret(v.P, MakeNode("BINARY_OP",
                          [left |-> e.node, operator_type |-> Parser_peek(e.P).type,
                           right |-> v.node])))
        ELSE e)

Parser_ternary(P) ==
    With(BinaryLevel(P, 1), LAMBDA e :
        IF Parser_match(e.P, {"IF"})
        THEN With(BinaryLevel(Parser_advance(e.P), 1), LAMBDA c :
             With(Parser_ternary(Parser_consume(c.P, "ELSE",
                                     "Expected 'else' in ternary expression")), LAMBDA f :
                 Ret(f.P, MakeNode("TERNARY", [condition |-> c.node, true_expr |-> e.node,
                                               false_expr |-> f.node]))))
        ELSE e)

\* logicalOr, logicalAnd, equality, comparison, term, factor.  Each level
\* begins by calling the level below for its first operand, so the first
\* thing a level parses is unary(); Climb then runs the loops of the levels
\* from factor up to the level asked for.
BinaryLevel(P, level) == With(Parser_unary(P), LAMBDA e : Climb(e, 6, level))

Climb(e, l, level) ==
    IF l < level THEN e
    ELSE With(IF LevelChecksNull[l] /\ IsNull(e.node) THEN Ret(e.P, NULL)
              ELSE BinaryLoop(e.P, e.node, l), LAMBDA r :
             Climb(r, l - 1, level))

BinaryLoop(P, expr, level) ==
    IF Parser_match(P, LevelOps[level])
    THEN With(IF level = 6 THEN Parser_unary(Parser_advance(P))
              ELSE BinaryLevel(Parser_advance(P), level + 1), LAMBDA r :
             IF LevelChecksNull[level] /\ IsNull(r.node) THEN Ret(r.P, NULL)
             ELSE BinaryLoop(r.P, MakeNode("BINARY_OP",
                      [left |-> expr, operator_type |-> Parser_peek(P).type,
                       right |-> r.node]), level))
    ELSE Ret(P, expr)

Parser_unary(P) ==
    IF Parser_match(P, {"NOT", "LOGICAL_NOT", "MINUS", "PLUS"})
    THEN With(Parser_unary(Parser_advance(P)), LAMBDA r :
             IF IsNull(r.node) THEN Ret(r.P, NULL)
             ELSE Ret(r.P, MakeNode("UNARY_OP", [operator_type |-> Parser_peek(P).type,
                                                 operand |-> r.node])))
    ELSE Parser_call(P)

Parser_call(P) ==
    With(Parser_primary(P), LAMBDA e :
        IF IsNull(e.node) THEN Ret(e.P, NULL) ELSE CallLoop(e.P, e.node))

CallLoop(P, expr) ==
    CASE Parser_match(P, {"LEFT_PAREN"}) ->
            With(Parser_arguments(Parser_advance(P)), LAMBDA a :
                CallLoop(Parser_consume(a.P, "RIGHT_PAREN", "Expected ')' after arguments"),
                         MakeNode("CALL", [callee |-> expr, arguments |-> a.node])))
      [] Parser_match(P, {"DOT"}) ->
            LET P1 == Parser_consume(Parser_advance(P), "IDENTIFIER",
                                     "Expected property name after '.'")
            IN  CallLoop(P1, MakeNode("MEMBER_ACCESS",
                                 [object |-> expr, member |-> Parser_previous(P1).value]))
      [] Parser_match(P, {"LEFT_BRACKET"}) ->
            With(Parser_expression(Parser_advance(P)), LAMBDA i :
                CallLoop(Parser_consume(i.P, "RIGHT_BRACKET",
                                        "Expected ']' after array index"),
                         MakeNode("ARRAY_ACCESS", [array |-> expr, index |-> i.node])))
      [] OTHER -> Ret(P, expr)

Parser_primary(P) ==
    CASE Parser_match(P, {"BOOLEAN", "NULL_LITERAL", "INTEGER", "FLOAT", "STRING"}) ->
            Ret(Parser_advance(P), MakeNode("LITERAL", [value |-> Parser_peek(P).value,
                                                        literal_type |-> Parser_peek(P).type]))
      [] Parser_match(P, {"IDENTIFIER"}) ->
            Ret(Parser_advance(P), MakeNode("IDENTIFIER", [name |-> Parser_peek(P).value]))
      [] Parser_match(P, {"LEFT_PAREN"}) ->
            With(Parser_expression(Parser_advance(P)), LAMBDA e :
                Ret(Parser_consume(e.P, "RIGHT_PAREN", "Expected ')' after expression"),
                    e.node))
      [] Parser_match(P, {"LEFT_BRACKET"}) ->
            LET P2 == SkipWhile(Parser_advance(P), {"NEWLINE", "INDENT"})
            IN  With(IF ~Parser_check(P2, "RIGHT_BRACKET") THEN ArrayElements(P2, <<>>)
                     ELSE Ret(P2, <<>>), LAMBDA r :
                    Ret(Parser_consume(SkipWhile(r.P, {"NEWLINE", "DEDENT"}), "RIGHT_BRACKET",
                                       "Expected ']' after array elements"),
                        MakeNode("ARRAY_LITERAL", [elements |-> r.node])))
      [] Parser_match(P, {"LEFT_BRACE"}) ->
            LET P2 == SkipWhile(Parser_advance(P), {"NEWLINE", "INDENT"})
            IN  With(IF ~Parser_check(P2, "RIGHT_BRACE") THEN DictPairs(P2, <<>>)
                     ELSE Ret(P2, <<>>), LAMBDA r :
                    Ret(Parser_consume(SkipWhile(r.P, {"NEWLINE", "DEDENT"}), "RIGHT_BRACE",
                                       "Expected '}' after dictionary elements"),
                        MakeNode("DICT_LITERAL", [pairs |-> r.node])))
      [] Parser_match(P, {"FUNC"}) ->
            With(Parser_parameters(Parser_consume(Parser_advance(P), "LEFT_PAREN",
                                                  "Expected '(' after 'func'")), LAMBDA ps :
            With(Parser_expression(
                     Parser_consume(Parser_consume(ps.P, "RIGHT_PAREN",
                                        "Expected ')' after lambda parameters"),
                                    "COLON", "Expected ':' after lambda parameters")), LAMBDA b :
                Ret(b.P, MakeNode("LAMBDA", [parameters |-> ps.node, body |-> b.node]))))
      [] OTHER -> Ret(Parser_addError(P, "Expected expression"), NULL)

\* the do ... while (match(COMMA)) loop of an array literal
ArrayElements(P, elements) ==
    LET P1 == SkipWhile(P, {"NEWLINE", "INDENT"})
    IN  IF Parser_check(P1, "RIGHT_BRACKET") \/ Parser_check(P1, "DEDENT")
                \/ Parser_isAtEnd(P1)
        THEN Ret(P1, elements)
        ELSE With(Parser_expression(P1), LAMBDA e :
                 LET P2 == SkipWhile(e.P, {"NEWLINE"})
                 IN  CASE IsNull(e.node) -> Ret(e.P, elements)
                       [] ~IsNull(e.node) /\ Parser_match(P2, {"COMMA"}) ->
                            ArrayElements(Parser_advance(P2), Append(elements, e.node))
                       [] OTHER -> Ret(P2, Append(elements, e.node)))

\* the do ... while (match(COMMA)) loop of a dictionary literal
DictPairs(P, pairs) ==
    LET P1 == SkipWhile(P, {"NEWLINE", "INDENT"})
    IN  IF Parser_check(P1, "RIGHT_BRACE") \/ Parser_check(P1, "DEDENT")
                \/ Parser_isAtEnd(P1)
        THEN Ret(P1, pairs)
        ELSE With(Parser_expression(P1), LAMBDA k :
                 IF IsNull(k.node) THEN Ret(k.P, pairs)
                 ELSE With(Parser_expression(Parser_consume(k.P, "COLON",
                                "Expected ':' after dictionary key")), LAMBDA v :
                      LET P2 == SkipWhile(v.P, {"NEWLINE"})
                          added == Append(pairs, <<k.node, v.node>>)
                      IN  CASE IsNull(v.node) -> Ret(v.P, pairs)
                            [] ~IsNull(v.node) /\ Parser_match(P2, {"COMMA"}) ->
                                 DictPairs(Parser_advance(P2), added)
                            [] OTHER -> Ret(P2, added)))

Parser_parameters(P) ==
    IF ~Parser_check(P, "RIGHT_PAREN") THEN ParameterLoop(P, <<>>) ELSE Ret(P, <<>>)

ParameterLoop(P, params) ==
    LET P1 == Parser_consume(P, "IDENTIFIER", "Expected parameter name")
        hasType == Parser_match(P1, {"COLON"})
        P2 == IF hasType
              THEN Parser_consume(Parser_advance(P1), "IDENTIFIER", "Expected parameter type")
              ELSE P1
    IN  With(IF Parser_match(P2, {"ASSIGN"}) THEN Parser_expression(Parser_advance(P2))
             ELSE Ret(P2, NULL), LAMBDA d :
            LET added == Append(params,
                             [name |-> Parser_previous(P1).value,
                              type |-> IF hasType THEN Parser_previous(P2).value ELSE "",
                              default_value |-> d.node])
            IN  IF Parser_match(d.P, {"COMMA"})
                THEN ParameterLoop(Parser_advance(d.P), added)
                ELSE Ret(d.P, added))

Parser_arguments(P) ==
    IF ~Parser_check(P, "RIGHT_PAREN") THEN ArgumentLoop(P, <<>>) ELSE Ret(P, <<>>)

ArgumentLoop(P, args) ==
    With(Parser_expression(P), LAMBDA e :
        IF Parser_match(e.P, {"COMMA"})
        THEN ArgumentLoop(Parser_advance(e.P), Append(args, e.node))
        ELSE Ret(e.P, Append(args, e.node)))

\* "Consume newline if present, but don't require it at end of file or before a dedent"
EndOfLine(P, message) ==
    CASE Parser_check(P, "NEWLINE") -> Parser_advance(P)
      [] ~Parser_check(P, "NEWLINE") /\ ~Parser_check(P, "DEDENT") /\ ~Parser_isAtEnd(P) ->
            Parser_consume(P, "NEWLINE", message)
      [] OTHER -> P

\* while (!check(type) && !isAtEnd()) advance();
RECURSIVE SkipTo(_, _)
SkipTo(P, type) ==
    IF ~Parser_check(P, type) /\ ~Parser_isAtEnd(P) THEN SkipTo(Parser_advance(P), type)
    ELSE P

\* while (check(ANNOTATION)) annotations.push_back(advance().value);
RECURSIVE Annotations(_, _)
Annotations(P, annotations) ==
    IF Parser_check(P, "ANNOTATION")
    THEN Annotations(Parser_advance(P), Append(annotations, Parser_peek(P).value))
    ELSE Ret(P, annotations)

RECURSIVE Parser_statement(_), Parser_blockStatement(_), BlockLoop(_, _),
          Parser_ifStatement(_), Parser_matchStatement(_), MatchLoop(_, _),
          Parser_funcDeclaration(_), Parser_classDeclaration(_), ClassLoop(_, _)

Parser_expressionStatement(P) ==
    With(Parser_expression(P), LAMBDA e :
        IF IsNull(e.node) THEN Ret(e.P, NULL)
        ELSE Ret(EndOfLine(e.P, "Expected newline after expression"),
                 MakeNode("EXPRESSION_STMT", [expression |-> e.node])))

Parser_varDeclaration(P) ==
    LET P1 == Parser_consume(P, "IDENTIFIER", "Expected variable name")
        hasType == Parser_match(P1, {"COLON"})
        P2 == IF hasType
              THEN Parser_consume(Parser_advance(P1), "IDENTIFIER", "Expected type name")
              ELSE P1
        hasGeneric == hasType /\ Parser_match(P2, {"LEFT_BRACKET"})
        P3 == Parser_consume(Parser_advance(P2), "IDENTIFIER", "Expected generic type name")
        P4 == IF hasGeneric
              THEN Parser_consume(P3, "RIGHT_BRACKET", "Expected ']' after generic type")
              ELSE P2
        type_hint == IF hasGeneric
                     THEN Parser_previous(P2).value \o "[" \o Parser_previous(P3).value \o "]"
                     ELSE IF hasType THEN Parser_previous(P2).value ELSE ""
    IN  With(IF Parser_match(P4, {"ASSIGN", "TYPE_INFER_ASSIGN"})
             THEN Parser_expression(Parser_advance(P4)) ELSE Ret(P4, NULL), LAMBDA i :
            Ret(EndOfLine(i.P, "Expected newline after variable declaration"),
                MakeNode("VAR_DECL", [name |-> Parser_previous(P1).value,
                                      var_type |-> type_hint, initializer |-> i.node,
                                      is_static |-> FALSE, annotations |-> <<>>])))

Parser_constDeclaration(P) ==
    LET P1 == Parser_consume(P, "IDENTIFIER", "Expected constant name")
    IN  With(Parser_expression(Parser_consume(P1, "ASSIGN",
                                   "Expected '=' after constant name")), LAMBDA v :
            Ret(Parser_consume(v.P, "NEWLINE", "Expected newline after constant declaration"),
                MakeNode("CONST_DECL", [name |-> Parser_previous(P1).value,
                                        value |-> v.node])))

Parser_signalDeclaration(P) ==
    LET P1 == Parser_consume(P, "IDENTIFIER", "Expected signal name")
    IN  With(IF Parser_match(P1, {"LEFT_PAREN"})
             THEN With(Parser_parameters(Parser_advance(P1)), LAMBDA r :
                      Ret(Parser_consume(r.P, "RIGHT_PAREN",
                                         "Expected ')' after signal parameters"), r.node))
             ELSE Ret(P1, <<>>), LAMBDA ps :
            Ret(Parser_consume(ps.P, "NEWLINE", "Expected newline after signal declaration"),
                MakeNode("SIGNAL_DECL", [name |-> Parser_previous(P1).value,
                                         parameters |-> ps.node])))

\* the do ... while (!check(RIGHT_BRACE) && !isAtEnd()) loop of enumDeclaration
RECURSIVE EnumLoop(_, _)
EnumLoop(P, values) ==
    LET P1 == SkipWhile(SkipWhile(P, {"NEWLINE"}), {"INDENT", "DEDENT"})
        again(Q, vals) == IF ~Parser_check(Q, "RIGHT_BRACE") /\ ~Parser_isAtEnd(Q)
                          THEN EnumLoop(Q, vals) ELSE Ret(Q, vals)
    IN  IF Parser_check(P1, "RIGHT_BRACE") \/ Parser_isAtEnd(P1) THEN Ret(P1, values)
        ELSE IF Parser_peek(P1).value = "" THEN again(Parser_advance(P1), values)
        ELSE IF ~Parser_check(P1, "IDENTIFIER")
             THEN again(Parser_advance(Parser_addError(P1,
                      "Expected enum value name, got " \o Parser_peek(P1).value)), values)
        ELSE With(IF Parser_match(Parser_advance(P1), {"ASSIGN"})
                  THEN Parser_expression(Parser_advance(Parser_advance(P1)))
                  ELSE Ret(Parser_advance(P1), NULL), LAMBDA e :
                 LET added == Append(values, [name |-> Parser_peek(P1).value,
                                              value |-> e.node])
                 IN  IF ~Parser_match(e.P, {"COMMA"}) THEN Ret(e.P, added)
                     ELSE again(Parser_advance(e.P), added))

Parser_enumDeclaration(P) ==
    LET P1 == Parser_consume(P, "IDENTIFIER", "Expected enum name")
        P2 == SkipWhile(Parser_consume(P1, "LEFT_BRACE", "Expected '{' after enum name"),
                        {"NEWLINE"})
    IN  With(IF ~Parser_check(P2, "RIGHT_BRACE") THEN EnumLoop(P2, <<>>)
             ELSE Ret(P2, <<>>), LAMBDA vs :
            LET P3 == SkipWhile(vs.P, {"NEWLINE", "DEDENT"})
                P4 == IF ~Parser_check(P3, "RIGHT_BRACE")
                      THEN SkipTo(Parser_addError(P3, "Expected '}' after enum values"),
                                  "NEWLINE")
                      ELSE Parser_advance(P3)
                P5 == IF ~Parser_check(P4, "NEWLINE")
                      THEN Parser_addError(P4, "Expected newline after enum declaration")
                      ELSE Parser_advance(P4)
            IN  Ret(P5, MakeNode("ENUM_DECL", [name |-> Parser_previous(P1).value,
                                               values |-> vs.node])))

Parser_blockStatement(P) ==
    With(BlockLoop(Parser_consume(P, "INDENT", "Expected indentation"), <<>>), LAMBDA b :
        Ret(Parser_consume(b.P, "DEDENT", "Expected dedentation"),
            MakeNode("BLOCK", [statements |-> b.node])))

\* the while loop of blockStatement.  Nothing in it forces progress: an
\* iteration whose statement() call consumes no token is repeated for ever.
BlockLoop(P, statements) ==
    LET P1 == SkipWhile(P, {"NEWLINE"})
    IN  CASE Parser_check(P, "DEDENT") \/ Parser_isAtEnd(P) -> Ret(P, statements)
          [] Parser_check(P1, "DEDENT") \/ Parser_isAtEnd(P1) -> Ret(P1, statements)
          [] ~Parser_isAtEnd(P1) /\ ~Parser_check(P1, "DEDENT")
                /\ Parser_peek(P1).value = "" ->
                BlockLoop(Parser_advance(P1), statements)
          [] OTHER ->
                With(Parser_statement(P1), LAMBDA s :
                    IF ~s.P.hung /\ s.P.current = P.current
                    THEN Ret([s.P EXCEPT !.hung = TRUE], statements)
                    ELSE BlockLoop(s.P, IF IsNull(s.node) THEN statements
                                        ELSE Append(statements, s.node)))

\* condition ':' NEWLINE block, shared by if, while, for and match cases
Suite(P, what) ==
    Parser_blockStatement(
        Parser_consume(Parser_consume(P, "COLON", "Expected ':' after " \o what),
                       "NEWLINE", "Expected newline after ':'"))

Parser_ifStatement(P) ==
    With(Parser_expression(P), LAMBDA c :
    With(Suite(c.P, "if condition"), LAMBDA t :
    With(CASE Parser_match(t.P, {"ELIF"}) -> Parser_ifStatement(Parser_advance(t.P))
           [] Parser_match(t.P, {"ELSE"}) -> Suite(Parser_advance(t.P), "else")
           [] OTHER -> Ret(t.P, NULL), LAMBDA e :
        Ret(e.P, MakeNode("IF_STMT", [condition |-> c.node, then_branch |-> t.node,
                                      else_branch |-> e.node])))))

Parser_whileStatement(P) ==
    With(Parser_expression(P), LAMBDA c :
    With(Suite(c.P, "while condition"), LAMBDA b :
        Ret(b.P, MakeNode("WHILE_STMT", [condition |-> c.node, body |-> b.node]))))

Parser_forStatement(P) ==
    LET P1 == Parser_consume(P, "IDENTIFIER", "Expected variable name")
    IN  With(Parser_expression(Parser_consume(P1, "IN",
                                   "Expected 'in' after for variable")), LAMBDA i :
        With(Suite(i.P, "for expression"), LAMBDA b :
            Ret(b.P, MakeNode("FOR_STMT", [variable |-> Parser_previous(P1).value,
                                           iterable |-> i.node, body |-> b.node]))))

Parser_matchStatement(P) ==
    With(Parser_expression(P), LAMBDA e :
    With(MatchLoop(Parser_consume(Parser_consume(Parser_consume(e.P,
                       "COLON", "Expected ':' after match expression"),
                       "NEWLINE", "Expected newline after ':'"),
                       "INDENT", "Expected indentation"), <<>>), LAMBDA cs :
        Ret(Parser_consume(cs.P, "DEDENT", "Expected dedentation"),
            MakeNode("MATCH_STMT", [expression |-> e.node, cases |-> cs.node]))))

MatchLoop(P, cases) ==
    CASE Parser_check(P, "DEDENT") \/ Parser_isAtEnd(P) -> Ret(P, cases)
      [] Parser_match(P, {"NEWLINE"}) -> MatchLoop(Parser_advance(P), cases)
      [] OTHER ->
            With(Parser_expression(P), LAMBDA pattern :
            With(Suite(pattern.P, "match pattern"), LAMBDA body :
                MatchLoop(body.P, Append(cases, [pattern |-> pattern.node,
                                                 body |-> body.node]))))

Parser_returnStatement(P) ==
    With(IF ~Parser_check(P, "NEWLINE") /\ ~Parser_check(P, "DEDENT")
         THEN Parser_expression(P) ELSE Ret(P, NULL), LAMBDA v :
        LET P1 == SkipWhile(v.P, {"NEWLINE"})
        IN  Ret(IF ~Parser_check(P1, "NEWLINE") /\ ~Parser_check(P1, "DEDENT")
                      /\ ~Parser_isAtEnd(P1)
                THEN Parser_consume(P1, "NEWLINE",
                                    "Expected newline after return statement")
                ELSE P1,
                MakeNode("RETURN_STMT", [value |-> v.node])))

Parser_funcDeclaration(P) ==
    LET P1 == Parser_consume(P, "IDENTIFIER", "Expected function name")
    IN  With(Parser_parameters(Parser_consume(P1, "LEFT_PAREN",
                                   "Expected '(' after function name")), LAMBDA ps :
            LET P2 == Parser_consume(ps.P, "RIGHT_PAREN", "Expected ')' after parameters")
                hasArrow == Parser_match(P2, {"ARROW"})
                P3 == CASE ~hasArrow -> P2
                        [] hasArrow /\ Parser_check(Parser_advance(P2), "VOID") ->
                              Parser_advance(Parser_advance(P2))
                        [] OTHER -> Parser_consume(Parser_advance(P2), "IDENTIFIER",
                                                   "Expected return type")
            IN  With(Parser_blockStatement(
                         Parser_consume(Parser_consume(P3, "COLON",
                                            "Expected ':' after function signature"),
                                        "NEWLINE", "Expected newline after ':'")), LAMBDA b :
                    Ret(b.P, MakeNode("FUNC_DECL",
                            [name |-> Parser_previous(P1).value, parameters |-> ps.node,
                             return_type |-> IF hasArrow THEN Parser_previous(P3).value
                                             ELSE "",
                             body |-> b.node, is_static |-> FALSE,
                             annotations |-> <<>>]))))

Parser_classDeclaration(P) ==
    LET P1 == Parser_consume(P, "IDENTIFIER", "Expected class name")
        hasBase == Parser_match(P1, {"EXTENDS"})
        P2 == IF hasBase
              THEN Parser_consume(Parser_advance(P1), "IDENTIFIER", "Expected base class name")
              ELSE P1
    IN  With(ClassLoop(Parser_consume(Parser_consume(Parser_consume(P2,
                           "COLON", "Expected ':' after class declaration"),
                           "NEWLINE", "Expected newline after ':'"),
                           "INDENT", "Expected indentation"), <<>>), LAMBDA ms :
            Ret(Parser_consume(ms.P, "DEDENT", "Expected dedentation"),
                MakeNode("CLASS_DECL",
                    [name |-> Parser_previous(P1).value,
                     base_class |-> IF hasBase THEN Parser_previous(P2).value ELSE "",
                     members |-> ms.node, annotations |-> <<>>])))

\* the while loop of classDeclaration; like BlockLoop, it does not force progress
ClassLoop(P, members) ==
    CASE Parser_check(P, "DEDENT") \/ Parser_isAtEnd(P) -> Ret(P, members)
      [] Parser_match(P, {"NEWLINE"}) -> ClassLoop(Parser_advance(P), members)
      [] OTHER ->
            With(Parser_statement(P), LAMBDA m :
                CASE ~m.P.hung /\ m.P.current = P.current ->
                        Ret([m.P EXCEPT !.hung = TRUE], members)
                  [] ~(~m.P.hung /\ m.P.current = P.current)
                        /\ m.node.type \in DeclarationTypes ->
                        ClassLoop(m.P, Append(members, m.node))
                  [] ~(~m.P.hung /\ m.P.current = P.current)
                        /\ m.node.type \notin DeclarationTypes /\ ~IsNull(m.node) ->
                        ClassLoop(Parser_addError(m.P,
                            "Only declarations are allowed in class bodies"), members)
                  [] OTHER -> ClassLoop(m.P, members))

Parser_statement(P) ==
    With(Annotations(P, <<>>), LAMBDA a :
    LET t == Parser_peek(a.P).type
        P1 == Parser_advance(a.P)
        \* consume(IDENTIFIER, ...); consume(NEWLINE, ...) after class_name / extends
        named(m1, m2) == Parser_consume(Parser_consume(P1, "IDENTIFIER", m1), "NEWLINE", m2)
        nameOf(m1) == Parser_previous(Parser_consume(P1, "IDENTIFIER", m1)).value
        simple(nodeType, m) == Ret(Parser_consume(P1, "NEWLINE", m), MakeNode(nodeType, <<>>))
        annotated(r) == Ret(r.P, [r.node EXCEPT !.annotations = a.node])
        static(r) == Ret(r.P, [r.node EXCEPT !.annotations = a.node, !.is_static = TRUE])
    IN  CASE Parser_isAtEnd(a.P) -> Parser_expressionStatement(a.P)
          [] t = "CLASS_NAME" ->
                Ret(named("Expected class name after 'class_name'",
                          "Expected newline after class_name declaration"),
                    MakeNode("CLASS_DECL",
                        [name |-> nameOf("Expected class name after 'class_name'"),
                         base_class |-> "", members |-> <<>>, annotations |-> <<>>]))
          [] t = "EXTENDS" ->
                Ret(named("Expected base class name after 'extends'",
                          "Expected newline after extends declaration"),
                    MakeNode("CLASS_DECL",
                        [name |-> "",
                         base_class |-> nameOf("Expected base class name after 'extends'"),
                         members |-> <<>>, annotations |-> <<>>]))
          [] t = "CLASS" -> annotated(Parser_classDeclaration(P1))
          [] t = "STATIC" ->
                IF Parser_match(P1, {"FUNC"})
                THEN static(Parser_funcDeclaration(Parser_advance(P1)))
                ELSE IF Parser_match(P1, {"VAR"})
                     THEN static(Parser_varDeclaration(Parser_advance(P1)))
                ELSE Ret(Parser_addError(P1, "Expected 'func' or 'var' after 'static'"), NULL)
          [] t = "FUNC" -> annotated(Parser_funcDeclaration(P1))
          [] t = "VAR" -> annotated(Parser_varDeclaration(P1))
          [] t = "CONST" -> Parser_constDeclaration(P1)
          [] t = "ENUM" -> Parser_enumDeclaration(P1)
          [] t = "SIGNAL" -> Parser_signalDeclaration(P1)
          [] t = "IF" -> Parser_ifStatement(P1)
          [] t = "WHILE" -> Parser_whileStatement(P1)
          [] t = "FOR" -> Parser_forStatement(P1)
          [] t = "MATCH" -> Parser_matchStatement(P1)
          [] t = "RETURN" -> Parser_returnStatement(P1)
          [] t = "BREAK" -> simple("BREAK_STMT", "Expected newline after 'break'")
          [] t = "CONTINUE" -> simple("CONTINUE_STMT", "Expected newline after 'continue'")
          [] t = "PASS" -> simple("PASS_STMT", "Expected newline after 'pass'")
          [] t = "IDENTIFIER" /\ Parser_match(P1, {"TYPE_INFER_ASSIGN"}) ->
                \* identifier := expression
                With(Parser_expression(Parser_advance(P1)), LAMBDA i :
                    Ret(Parser_consume(i.P, "NEWLINE",
                            "Expected newline after type inference assignment"),
                        MakeNode("VAR_DECL",
                            [name |-> Parser_peek(a.P).value, var_type |-> "",
                             initializer |-> i.node, is_static |-> FALSE,
                             annotations |-> <<>>])))
          [] OTHER -> Parser_expressionStatement(a.P))

(***************************************************************************)
(* Parser::parse.  The parse state S is the Parser object together with    *)
(* the locals statements, last_token_position and stuck_count.             *)
(***************************************************************************)
MAX_STUCK_COUNT == 100

ParseState(toks) ==
    Parser(toks) @@ [statements |-> <<>>, last_token_position |-> -1, stuck_count |-> 0]

\* the loop ends: at the while condition, or at the break after the newlines
ParseExits(S) == Parser_isAtEnd(SkipWhile(S, {"NEWLINE"}))

\* the stuck check of an iteration that has skipped the newlines
StuckCheck(S) ==
    IF S.current = S.last_token_position
    THEN [S EXCEPT !.stuck_count = @ + 1]
    ELSE [S EXCEPT !.stuck_count = 0, !.last_token_position = S.current]

ParseForces(S) ==
    ~ParseExits(S) /\ StuckCheck(SkipWhile(S, {"NEWLINE"})).stuck_count >= MAX_STUCK_COUNT

ParseSkips(S) ==
    ~ParseExits(S) /\ ~ParseForces(S) /\ Parser_peek(SkipWhile(S, {"NEWLINE"})).value = ""

\* one iteration of the while loop of parse
ParseIteration(S) ==
    LET S1 == StuckCheck(SkipWhile(S, {"NEWLINE"}))
    IN  CASE ParseForces(S) -> [Parser_advance(S1) EXCEPT !.stuck_count = 0]
          [] ParseSkips(S) -> Parser_advance(S1)
          [] OTHER -> With(Parser_statement(S1), LAMBDA r :
                          IF IsNull(r.node) THEN r.P
                          ELSE [r.P EXCEPT !.statements = Append(@, r.node)])

Program(S) == ASTNode("PROGRAM", DefaultLine, DefaultColumn) @@ [statements |-> S.statements]

Parser_hasErrors(S) == S.errors /= <<>>

(***************************************************************************)
(* Type system and symbol tables (semantic_analyzer.h, .cpp).  A TypeInfo  *)
(* is a record; base_type is the name of the GDType enumerator.            *)
(***************************************************************************)
TypeInfo(type) == [base_type |-> type, custom_name |-> "", generic_params |-> <<>>]

CustomType(name) == [base_type |-> "CUSTOM", custom_name |-> name, generic_params |-> <<>>]

\* operator==: the generic parameters are not compared
TypeInfo_equals(a, b) == a.base_type = b.base_type /\ a.custom_name = b.custom_name

TypeNames ==
    [VOID |-> "void", INT |-> "int", FLOAT |-> "float", STRING |-> "String",
     BOOL |-> "bool", ARRAY |-> "Array", DICTIONARY |-> "Dictionary",
     VECTOR2 |-> "Vector2", VECTOR3 |-> "Vector3", NODE |-> "Node",
     OBJECT |-> "Object", VARIANT |-> "Variant", UNKNOWN |-> "unknown"]
    @@ ("LAMBDA" :> "lambda")

RECURSIVE TypeInfo_toString(_), JoinTypes(_, _)
TypeInfo_toString(t) ==
    (IF t.base_type = "CUSTOM" THEN t.custom_name ELSE TypeNames[t.base_type])
        \o (IF t.generic_params /= <<>> THEN "[" \o JoinTypes(t.generic_params, 1) \o "]"
            ELSE "")

JoinTypes(ps, i) ==
    IF i > Len(ps) THEN ""
    ELSE (IF i > 1 THEN ", " ELSE "") \o TypeInfo_toString(ps[i]) \o JoinTypes(ps, i + 1)

TypeInfo_isNumeric(t) == t.base_type \in {"INT", "FLOAT"}

\* this->isCompatibleWith(other), the tests in the order of the code
TypeInfo_isCompatibleWith(this, other) ==
    CASE TypeInfo_equals(this, other) -> TRUE
      [] other.base_type = "VARIANT" \/ this.base_type = "VARIANT" -> TRUE
      [] TypeInfo_isNumeric(this) /\ TypeInfo_isNumeric(other) -> TRUE
      [] other.base_type = "STRING" -> TRUE
      [] this.base_type = "NODE" /\ other.base_type = "OBJECT" -> TRUE
      [] this.base_type = "OBJECT" /\ other.base_type = "NODE" -> TRUE
      [] OTHER -> FALSE

\* std::unordered_map: a function whose domain is the set of keys
EmptyMap == [k \in {} |-> k]

Put(m, k, v) == [x \in DOMAIN m \cup {k} |-> IF x = k THEN v ELSE m[x]]

nullptr == [nullptr |-> TRUE]

Symbol(n, t, constant, static_var, line) ==
    [name |-> n, type |-> t, is_constant |-> constant, is_static |-> static_var,
     is_initialized |-> FALSE, declaration_line |-> line]

\* the six-parameter constructor; static_func, variadic and line have defaults
\* a signature that is variadic whatever the constructor is given
FunctionSignature_variadic(n, params, ret, static_func, variadic, line) ==
    [name |-> n, parameter_types |-> params, return_type |-> ret,
     is_static |-> static_func, is_variadic |-> TRUE, declaration_line |-> line]

FunctionSignature(n, params, ret, static_func, variadic, line) ==
    [name |-> n, parameter_types |-> params, return_type |-> ret,
     is_static |-> static_func, is_variadic |-> variadic, declaration_line |-> line]

\* a scope chain is the sequence of scopes from the global scope to the
\* current one; the parent of scopes[i] is scopes[i - 1]
Scope == [symbols |-> EmptyMap, functions |-> EmptyMap]

RECURSIVE Scope_findSymbol(_, _), Scope_findFunction(_, _)
Scope_findSymbol(scopes, name) ==
    CASE scopes = <<>> -> nullptr
      [] scopes /= <<>> /\ name \in DOMAIN Last(scopes).symbols -> Last(scopes).symbols[name]
      [] OTHER -> Scope_findSymbol(Front(scopes), name)

Scope_findFunction(scopes, name) ==
    CASE scopes = <<>> -> nullptr
      [] scopes /= <<>> /\ name \in DOMAIN Last(scopes).functions ->
            Last(scopes).functions[name]
      [] OTHER -> Scope_findFunction(Front(scopes), name)

\* current_scope->defineSymbol(symbol)
Scope_defineSymbol(A, symbol) ==
    [A EXCEPT !.scopes[Len(A.scopes)].symbols = Put(@, symbol.name, symbol)]

\* current_scope->defineFunction(function)
Scope_defineFunction(A, function) ==
    [A EXCEPT !.scopes[Len(A.scopes)].functions = Put(@, function.name, function)]

builtin_types ==
    [int |-> TypeInfo("INT"), float |-> TypeInfo("FLOAT"), String |-> TypeInfo("STRING"),
     bool |-> TypeInfo("BOOL"), Array |-> TypeInfo("ARRAY"),
     Dictionary |-> TypeInfo("DICTIONARY"), Vector2 |-> TypeInfo("VECTOR2"),
     Vector3 |-> TypeInfo("VECTOR3"), Node |-> TypeInfo("NODE"),
     Object |-> TypeInfo("OBJECT"), Variant |-> TypeInfo("VARIANT"),
     void |-> TypeInfo("VOID")]

\* the built-in functions initializeBuiltinTypes defines in the global scope
BuiltinFunctions ==
    ("print" :> FunctionSignature("print", <<>>, TypeInfo("VOID"), FALSE, TRUE, 0))
    @@ ("range" :> FunctionSignature("range", <<TypeInfo("INT")>>, TypeInfo("ARRAY"),
                                     FALSE, FALSE, 0))
    @@ ("len" :> FunctionSignature("len", <<TypeInfo("VARIANT")>>, TypeInfo("INT"),
                                   FALSE, FALSE, 0))
    @@ ("str" :> FunctionSignature("str", <<TypeInfo("VARIANT")>>, TypeInfo("STRING"),
                                   FALSE, FALSE, 0))

\* SemanticAnalyzer::SemanticAnalyzer().  undefined records that the analysis
\* has read through a null pointer or past the end of a vector.
SemanticAnalyzer ==
    [errors |-> <<>>, warnings |-> <<>>,
     scopes |-> <<[symbols |-> EmptyMap, functions |-> BuiltinFunctions]>>,
     classes |-> EmptyMap, current_class |-> "", current_function |-> "",
     in_loop |-> FALSE, expected_return_type |-> TypeInfo("VOID"), undefined |-> FALSE]

addError(A, message, line) ==
    [A EXCEPT !.errors = Append(@, "Semantic Error"
        \o (IF line > 0 THEN " at line " \o ToString(line) ELSE "") \o ": " \o message)]

addWarning(A, message, line) ==
    [A EXCEPT !.warnings = Append(@, "Warning"
        \o (IF line > 0 THEN " at line " \o ToString(line) ELSE "") \o ": " \o message)]

\* std::string::find(c, from): the 1-based position of c, 0 for npos
RECURSIVE Find(_, _, _)
Find(s, c, from) ==
    CASE from > Len(s) -> 0
      [] from <= Len(s) /\ SubSeq(s, from, from) = c -> from
      [] OTHER -> Find(s, c, from + 1)

RECURSIVE getBuiltinType(_, _)
getBuiltinType(A, name) ==
    LET bracket_pos == Find(name, "[", 1)
        end_bracket == Find(name, "]", bracket_pos)
        base_type == SubSeq(name, 1, bracket_pos - 1)
        generic_param == SubSeq(name, bracket_pos + 1, end_bracket - 1)
    IN  CASE bracket_pos /= 0 /\ end_bracket /= 0 /\ base_type \in DOMAIN builtin_types ->
                With(getBuiltinType(A, generic_param), LAMBDA param_type :
                    IF param_type.base_type /= "UNKNOWN"
                    THEN [builtin_types[base_type] EXCEPT
                              !.generic_params = Append(@, param_type)]
                    ELSE builtin_types[base_type])
          [] name \in DOMAIN builtin_types -> builtin_types[name]
          [] name \notin DOMAIN builtin_types /\ name \in DOMAIN A.classes ->
                CustomType(name)
          [] OTHER -> TypeInfo("UNKNOWN")

enterScope(A) == [A EXCEPT !.scopes = Append(@, Scope)]

\* exitScope that leaves the current scope in place
exitScope_stay(A) == A

exitScope(A) == IF Len(A.scopes) > 1 THEN [A EXCEPT !.scopes = Front(@)] ELSE A

NumericResult(left, right) ==
    IF left.base_type = "FLOAT" \/ right.base_type = "FLOAT"
    THEN TypeInfo("FLOAT") ELSE TypeInfo("INT")

getUnaryResultType(op, operand) ==
    CASE op \in {"MINUS", "PLUS"} ->
            IF TypeInfo_isNumeric(operand) THEN operand ELSE TypeInfo("UNKNOWN")
      [] op \in {"NOT", "LOGICAL_NOT"} -> TypeInfo("BOOL")
      [] OTHER -> TypeInfo("UNKNOWN")

getBinaryResultType(left, op, right) ==
    LET numeric == TypeInfo_isNumeric(left) /\ TypeInfo_isNumeric(right)
        string(t) == t.base_type = "STRING"
    IN  IF left.base_type = "VARIANT" \/ right.base_type = "VARIANT" THEN TypeInfo("VARIANT")
        ELSE
        CASE op = "PLUS" /\ (string(left) \/ string(right)) -> TypeInfo("STRING")
          [] op = "PLUS" /\ numeric -> NumericResult(left, right)
          [] op \in {"MINUS", "MULTIPLY", "DIVIDE"} /\ numeric -> NumericResult(left, right)
          [] op = "MODULO" /\ string(left) /\ right.base_type = "ARRAY" -> TypeInfo("STRING")
          [] op = "MODULO" /\ numeric -> NumericResult(left, right)
          [] op \in AssignOps \ {"TYPE_INFER_ASSIGN"}
                /\ TypeInfo_isCompatibleWith(right, left) -> left
          [] op = "TYPE_INFER_ASSIGN" -> right
          [] op \in {"EQUAL", "NOT_EQUAL", "LESS", "LESS_EQUAL", "GREATER", "GREATER_EQUAL"}
                /\ (numeric \/ (string(left) /\ string(right))) -> TypeInfo("BOOL")
          [] op \in {"AND", "OR", "LOGICAL_AND", "LOGICAL_OR"} -> TypeInfo("BOOL")
          [] OTHER -> TypeInfo("UNKNOWN")

LiteralTypes ==
    [INTEGER |-> "INT", FLOAT |-> "FLOAT", STRING |-> "STRING", BOOLEAN |-> "BOOL",
     NULL_LITERAL |-> "VARIANT"]

\* getExpressionType reads the analyzer through current_scope only
RECURSIVE getExpressionType(_, _)
getExpressionType(scopes, expr) ==
    CASE IsNull(expr) -> TypeInfo("UNKNOWN")
      [] expr.type = "LITERAL" ->
            IF expr.literal_type \in DOMAIN LiteralTypes
            THEN TypeInfo(LiteralTypes[expr.literal_type]) ELSE TypeInfo("UNKNOWN")
      [] expr.type = "IDENTIFIER" ->
            With(Scope_findSymbol(scopes, expr.name), LAMBDA symbol :
                CASE symbol /= nullptr -> symbol.type
                  [] symbol = nullptr /\ Scope_findFunction(scopes, expr.name) /= nullptr ->
                        TypeInfo("LAMBDA")
                  [] OTHER -> TypeInfo("UNKNOWN"))
      [] expr.type = "BINARY_OP" ->
            With(getExpressionType(scopes, expr.left), LAMBDA left_type :
            With(getExpressionType(scopes, expr.right), LAMBDA right_type :
                getBinaryResultType(left_type, expr.operator_type, right_type)))
      [] expr.type = "UNARY_OP" ->
            With(getExpressionType(scopes, expr.operand), LAMBDA operand_type :
                getUnaryResultType(expr.operator_type, operand_type))
      [] expr.type = "CALL" /\ expr.callee.type = "IDENTIFIER" ->
            With(Scope_findFunction(scopes, expr.callee.name), LAMBDA func :
                IF func /= nullptr THEN func.return_type ELSE TypeInfo("UNKNOWN"))
      [] expr.type = "CALL" /\ expr.callee.type /= "IDENTIFIER" -> TypeInfo("VARIANT")
      [] expr.type = "ARRAY_LITERAL" -> TypeInfo("ARRAY")
      [] expr.type = "DICT_LITERAL" -> TypeInfo("DICTIONARY")
      [] expr.type = "LAMBDA" -> TypeInfo("LAMBDA")
      [] expr.type = "TERNARY" ->
            With(getExpressionType(scopes, expr.true_expr), LAMBDA true_type :
            With(getExpressionType(scopes, expr.false_expr), LAMBDA false_type :
                CASE TypeInfo_equals(true_type, false_type) -> true_type
                  [] ~TypeInfo_equals(true_type, false_type)
                        /\ true_type.base_type = "VARIANT" -> false_type
                  [] ~TypeInfo_equals(true_type, false_type)
                        /\ true_type.base_type /= "VARIANT"
                        /\ false_type.base_type = "VARIANT" -> true_type
                  [] true_type.base_type /= "VARIANT" /\ false_type.base_type /= "VARIANT"
                        /\ ~TypeInfo_equals(true_type, false_type)
                        /\ TypeInfo_isNumeric(true_type) /\ TypeInfo_isNumeric(false_type) ->
                        NumericResult(true_type, false_type)
                  [] OTHER -> TypeInfo("VARIANT")))
      [] OTHER -> TypeInfo("VARIANT")

(***************************************************************************)
(* Analysis of expressions.  An analyze operator takes the analyzer A and  *)
(* a node and returns the analyzer after the call.                         *)
(***************************************************************************)
RECURSIVE analyzeExpression(_, _), analyzeExpressions(_, _, _), analyzeCallExpr(_, _),
          analyzeLambdaExpr(_, _), analyzePairs(_, _, _)

\* for (auto& e : exprs) analyzeExpression(e.get());
analyzeExpressions(A, exprs, i) ==
    IF i > Len(exprs) THEN A
    ELSE With(analyzeExpression(A, exprs[i]), LAMBDA A1 : analyzeExpressions(A1, exprs, i + 1))

analyzeIdentifierExpr(A, expr) ==
    With(Scope_findSymbol(A.scopes, expr.name), LAMBDA symbol :
        CASE symbol = nullptr /\ Scope_findFunction(A.scopes, expr.name) = nullptr ->
                addError(A, "Undefined variable '" \o expr.name \o "'", expr.line)
          [] symbol /= nullptr /\ ~symbol.is_initialized ->
                addWarning(A, "Variable '" \o expr.name \o "' used before initialization",
                           expr.line)
          [] OTHER -> A)

analyzeBinaryOpExpr(A, expr) ==
    With(analyzeExpression(A, expr.left), LAMBDA A1 :
    With(analyzeExpression(A1, expr.right), LAMBDA A2 :
    With(getExpressionType(A2.scopes, expr.left), LAMBDA left_type :
    With(getExpressionType(A2.scopes, expr.right), LAMBDA right_type :
        IF getBinaryResultType(left_type, expr.operator_type, right_type).base_type
               = "UNKNOWN"
        THEN addError(A2, "Type mismatch in binary operation: "
                          \o TypeInfo_toString(left_type) \o " and "
                          \o TypeInfo_toString(right_type), expr.line)
        ELSE A2))))

analyzeUnaryOpExpr(A, expr) ==
    With(analyzeExpression(A, expr.operand), LAMBDA A1 :
    With(getExpressionType(A1.scopes, expr.operand), LAMBDA operand_type :
        IF getUnaryResultType(expr.operator_type, operand_type).base_type = "UNKNOWN"
        THEN addError(A1, "Invalid unary operation on " \o TypeInfo_toString(operand_type),
                      expr.line)
        ELSE A1))

\* the loop of analyzeCallExpr that compares each argument with its parameter
RECURSIVE checkArguments(_, _, _, _)
checkArguments(A, func, expr, i) ==
    IF i > Len(expr.arguments) THEN A
    ELSE With(getExpressionType(A.scopes, expr.arguments[i]), LAMBDA arg_type :
             checkArguments(
                 IF ~TypeInfo_isCompatibleWith(func.parameter_types[i], arg_type)
                 THEN addError(A, "Argument " \o ToString(i) \o " type mismatch: expected "
                                  \o TypeInfo_toString(func.parameter_types[i]) \o ", got "
                                  \o TypeInfo_toString(arg_type), expr.line)
                 ELSE A,
                 func, expr, i + 1))

analyzeCallExpr(A, expr) ==
    With(analyzeExpressions(A, expr.arguments, 1), LAMBDA A1 :
    With(IF expr.callee.type = "IDENTIFIER"
         THEN Scope_findFunction(A1.scopes, expr.callee.name) ELSE nullptr, LAMBDA func :
        CASE func = nullptr -> analyzeExpression(A1, expr.callee)
          [] func /= nullptr /\ func.is_variadic -> A1
          [] func /= nullptr /\ ~func.is_variadic
                /\ Len(expr.arguments) /= Len(func.parameter_types) ->
                addError(A1, "Function '" \o func.name \o "' expects "
                             \o ToString(Len(func.parameter_types)) \o " arguments, got "
                             \o ToString(Len(expr.arguments)), expr.line)
          [] OTHER -> checkArguments(A1, func, expr, 1)))

analyzeArrayAccessExpr(A, expr) ==
    With(analyzeExpression(A, expr.array), LAMBDA A1 :
    With(analyzeExpression(A1, expr.index), LAMBDA A2 :
    With(getExpressionType(A2.scopes, expr.array), LAMBDA array_type :
    With(getExpressionType(A2.scopes, expr.index), LAMBDA index_type :
        LET A3 == IF array_type.base_type \notin {"ARRAY", "STRING", "DICTIONARY", "VARIANT"}
                  THEN addError(A2, "Cannot index " \o TypeInfo_toString(array_type),
                                expr.line)
                  ELSE A2
        IN  IF array_type.base_type \in {"ARRAY", "STRING"}
                   /\ index_type.base_type \notin {"INT", "VARIANT"}
            THEN addError(A3, "Array/String index must be integer, got "
                              \o TypeInfo_toString(index_type), expr.line)
            ELSE A3))))

\* for (auto& pair : expr->pairs) { analyze first; analyze second }
analyzePairs(A, pairs, i) ==
    IF i > Len(pairs) THEN A
    ELSE With(analyzeExpression(A, pairs[i][1]), LAMBDA A1 :
         With(analyzeExpression(A1, pairs[i][2]), LAMBDA A2 :
             analyzePairs(A2, pairs, i + 1)))

\* the loop of analyzeLambdaExpr over the parameters; Symbol() and its assignments
RECURSIVE defineLambdaParameters(_, _, _)
defineLambdaParameters(A, params, i) ==
    IF i > Len(params) THEN A
    ELSE defineLambdaParameters(
             Scope_defineSymbol(A, [Symbol(params[i].name, TypeInfo("VARIANT"),
                                           FALSE, FALSE, 0)
                                    EXCEPT !.is_initialized = TRUE]),
             params, i + 1)

analyzeLambdaExpr(A, expr) ==
    With(defineLambdaParameters(enterScope(A), expr.parameters, 1), LAMBDA A1 :
    With(analyzeExpression(A1, expr.body), LAMBDA A2 : exitScope(A2)))

analyzeTernaryExpr(A, expr) ==
    With(analyzeExpression(A, expr.condition), LAMBDA A1 :
    With(analyzeExpression(A1, expr.true_expr), LAMBDA A2 :
    With(analyzeExpression(A2, expr.false_expr), LAMBDA A3 :
    With(getExpressionType(A3.scopes, expr.condition), LAMBDA condition_type :
    With(getExpressionType(A3.scopes, expr.true_expr), LAMBDA true_type :
    With(getExpressionType(A3.scopes, expr.false_expr), LAMBDA false_type :
        LET A4 == IF condition_type.base_type \notin {"BOOL", "VARIANT", "UNKNOWN"}
                  THEN addWarning(A3, "Ternary condition should be boolean, got "
                                      \o TypeInfo_toString(condition_type), expr.line)
                  ELSE A3
        IN  IF ~TypeInfo_equals(true_type, false_type)
                   /\ true_type.base_type \notin {"VARIANT", "UNKNOWN"}
                   /\ false_type.base_type \notin {"VARIANT", "UNKNOWN"}
            THEN addWarning(A4, "Ternary branches have different types: "
                                \o TypeInfo_toString(true_type) \o " and "
                                \o TypeInfo_toString(false_type), expr.line)
            ELSE A4))))))

analyzeExpression(A, expr) ==
    CASE IsNull(expr) -> A
      [] expr.type = "LITERAL" -> A
      [] expr.type = "IDENTIFIER" -> analyzeIdentifierExpr(A, expr)
      [] expr.type = "BINARY_OP" -> analyzeBinaryOpExpr(A, expr)
      [] expr.type = "UNARY_OP" -> analyzeUnaryOpExpr(A, expr)
      [] expr.type = "CALL" -> analyzeCallExpr(A, expr)
      [] expr.type = "MEMBER_ACCESS" -> analyzeExpression(A, expr.object)
      [] expr.type = "ARRAY_ACCESS" -> analyzeArrayAccessExpr(A, expr)
      [] expr.type = "ARRAY_LITERAL" -> analyzeExpressions(A, expr.elements, 1)
      [] expr.type = "DICT_LITERAL" -> analyzePairs(A, expr.pairs, 1)
      [] expr.type = "LAMBDA" -> analyzeLambdaExpr(A, expr)
      [] expr.type = "TERNARY" -> analyzeTernaryExpr(A, expr)
      [] OTHER -> addError(A, "Unknown expression type", expr.line)

(***************************************************************************)
(* Analysis of statements and declarations.                                *)
(***************************************************************************)
RECURSIVE analyzeStatement(_, _), analyzeStatements(_, _, _), analyzeCases(_, _, _, _)

\* for (auto& stmt : statements) analyzeStatement(stmt.get());
analyzeStatements(A, statements, i) ==
    IF i > Len(statements) THEN A
    ELSE With(analyzeStatement(A, statements[i]), LAMBDA A1 :
             analyzeStatements(A1, statements, i + 1))

\* current_scope->symbols.find(name) != current_scope->symbols.end()
DefinedHere(A, name) == name \in DOMAIN Last(A.scopes).symbols

analyzeVarDecl(A, decl) ==
    With(IF decl.var_type /= "" THEN getBuiltinType(A, decl.var_type)
         ELSE TypeInfo("VARIANT"), LAMBDA declared_type :
    With(analyzeExpression(
             IF declared_type.base_type = "UNKNOWN"
             THEN addError(A, "Unknown type '" \o decl.var_type \o "'", decl.line) ELSE A,
             decl.initializer), LAMBDA A1 :
    With(IF ~IsNull(decl.initializer) THEN getExpressionType(A1.scopes, decl.initializer)
         ELSE declared_type, LAMBDA inferred_type :
        LET A2 == IF ~IsNull(decl.initializer)
                     /\ ~TypeInfo_isCompatibleWith(declared_type, inferred_type)
                     /\ declared_type.base_type /= "VARIANT"
                  THEN addError(A1, "Type mismatch: cannot assign "
                                    \o TypeInfo_toString(inferred_type) \o " to "
                                    \o TypeInfo_toString(declared_type), decl.line)
                  ELSE A1
            A3 == IF DefinedHere(A2, decl.name)
                  THEN addError(A2, "Variable '" \o decl.name \o "' already defined",
                                decl.line)
                  ELSE A2
            symbol == Symbol(decl.name,
                             IF declared_type.base_type /= "VARIANT" THEN declared_type
                             ELSE inferred_type,
                             FALSE, decl.is_static, decl.line)
        IN  Scope_defineSymbol(A3, [symbol EXCEPT
                                       !.is_initialized = ~IsNull(decl.initializer)]))))

analyzeConstDecl(A, decl) ==
    With(analyzeExpression(A, decl.value), LAMBDA A1 :
    With(getExpressionType(A1.scopes, decl.value), LAMBDA value_type :
        Scope_defineSymbol(
            IF DefinedHere(A1, decl.name)
            THEN addError(A1, "Constant '" \o decl.name \o "' already defined", decl.line)
            ELSE A1,
            [Symbol(decl.name, value_type, TRUE, FALSE, decl.line)
                 EXCEPT !.is_initialized = TRUE])))

\* the loop of analyzeSignalDecl over the parameters
RECURSIVE checkSignalParameters(_, _, _)
checkSignalParameters(A, decl, i) ==
    IF i > Len(decl.parameters) THEN A
    ELSE checkSignalParameters(
             IF decl.parameters[i].type /= ""
                /\ getBuiltinType(A, decl.parameters[i].type).base_type = "UNKNOWN"
             THEN addError(A, "Unknown signal parameter type '"
                              \o decl.parameters[i].type \o "'", decl.line)
             ELSE A,
             decl, i + 1)

analyzeSignalDecl(A, decl) ==
    IF Scope_findSymbol(A.scopes, decl.name) /= nullptr
    THEN addError(A, "Signal '" \o decl.name \o "' conflicts with existing symbol",
                  decl.line)
    ELSE With(checkSignalParameters(A, decl, 1), LAMBDA A1 :
             Scope_defineSymbol(A1, [Symbol(decl.name, TypeInfo("VARIANT"), FALSE, FALSE,
                                            decl.line)
                                     EXCEPT !.is_initialized = TRUE]))

\* the loop of analyzeEnumDecl over the values
RECURSIVE defineEnumValues(_, _, _)
defineEnumValues(A, decl, i) ==
    IF i > Len(decl.values) THEN A
    ELSE IF Scope_findSymbol(A.scopes, decl.values[i].name) /= nullptr
    THEN defineEnumValues(
             addError(A, "Enum value '" \o decl.values[i].name
                         \o "' conflicts with existing symbol", decl.line),
             decl, i + 1)
    ELSE With(analyzeExpression(A, decl.values[i].value), LAMBDA A1 :
         With(IF ~IsNull(decl.values[i].value)
                 /\ getExpressionType(A1.scopes, decl.values[i].value).base_type /= "INT"
              THEN addError(A1, "Enum value '" \o decl.values[i].name
                                \o "' must be an integer", decl.line)
              ELSE A1, LAMBDA A2 :
             defineEnumValues(
                 Scope_defineSymbol(A2, Symbol(decl.values[i].name, TypeInfo("INT"),
                                               TRUE, FALSE, decl.line)),
                 decl, i + 1)))

analyzeEnumDecl(A, decl) ==
    IF Scope_findSymbol(A.scopes, decl.name) /= nullptr
    THEN addError(A, "Enum '" \o decl.name \o "' conflicts with existing symbol", decl.line)
    ELSE defineEnumValues(
             Scope_defineSymbol(A, Symbol(decl.name, CustomType(decl.name), TRUE, FALSE,
                                          decl.line)),
             decl, 1)

analyzeBlockStmt(A, stmt) ==
    With(analyzeStatements(enterScope(A), stmt.statements, 1), LAMBDA A1 : exitScope(A1))

\* the condition check shared word for word by analyzeIfStmt and analyzeWhileStmt
checkCondition(A, stmt) ==
    With(analyzeExpression(A, stmt.condition), LAMBDA A1 :
    With(getExpressionType(A1.scopes, stmt.condition), LAMBDA condition_type :
        IF condition_type.base_type \notin {"BOOL", "VARIANT"}
        THEN addWarning(A1, "Condition should be boolean, got "
                            \o TypeInfo_toString(condition_type), stmt.line)
        ELSE A1))

analyzeIfStmt(A, stmt) ==
    With(checkCondition(A, stmt), LAMBDA A1 :
    With(analyzeStatement(A1, stmt.then_branch), LAMBDA A2 :
        analyzeStatement(A2, stmt.else_branch)))

\* analyzeWhileStmt without 'in_loop = old_in_loop'
analyzeWhileStmt_noRestore(A, stmt) ==
    With(checkCondition(A, stmt), LAMBDA A1 :
        analyzeStatement([A1 EXCEPT !.in_loop = TRUE], stmt.body))

analyzeWhileStmt(A, stmt) ==
    With(checkCondition(A, stmt), LAMBDA A1 :
    With(analyzeStatement([A1 EXCEPT !.in_loop = TRUE], stmt.body), LAMBDA A2 :
        [A2 EXCEPT !.in_loop = A.in_loop]))

analyzeForStmt(A, stmt) ==
    With(analyzeExpression(A, stmt.iterable), LAMBDA A1 :
    With(getExpressionType(A1.scopes, stmt.iterable), LAMBDA iterable_type :
        LET A2 == IF iterable_type.base_type \notin {"ARRAY", "STRING", "VARIANT"}
                  THEN addError(A1, "Cannot iterate over "
                                    \o TypeInfo_toString(iterable_type), stmt.line)
                  ELSE A1
            loop_var == Symbol(stmt.variable,
                               IF iterable_type.base_type = "STRING"
                               THEN TypeInfo("STRING") ELSE TypeInfo("VARIANT"),
                               FALSE, FALSE, stmt.line)
            A3 == Scope_defineSymbol(enterScope(A2),
                                     [loop_var EXCEPT !.is_initialized = TRUE])
        IN  With(analyzeStatement([A3 EXCEPT !.in_loop = TRUE], stmt.body), LAMBDA A4 :
                exitScope([A4 EXCEPT !.in_loop = A.in_loop]))))

\* the loop of analyzeMatchStmt over the cases.  pattern->line is read
\* through the pattern pointer: a null pattern makes the read undefined.
analyzeCases(A, cases, match_type, i) ==
    IF i > Len(cases) THEN A
    ELSE With(analyzeExpression(A, cases[i].pattern), LAMBDA A1 :
         With(getExpressionType(A1.scopes, cases[i].pattern), LAMBDA pattern_type :
         With(analyzeStatement(
                  CASE ~TypeInfo_isCompatibleWith(pattern_type, match_type)
                          /\ pattern_type.base_type /= "VARIANT"
                          /\ match_type.base_type /= "VARIANT"
                          /\ ~IsNull(cases[i].pattern) ->
                          addWarning(A1, "Pattern type " \o TypeInfo_toString(pattern_type)
                                         \o " may not match expression type "
                                         \o TypeInfo_toString(match_type),
                                     cases[i].pattern.line)
                    [] ~TypeInfo_isCompatibleWith(pattern_type, match_type)
                          /\ pattern_type.base_type /= "VARIANT"
                          /\ match_type.base_type /= "VARIANT"
                          /\ IsNull(cases[i].pattern) -> [A1 EXCEPT !.undefined = TRUE]
                    [] OTHER -> A1,
                  cases[i].body), LAMBDA A2 :
             analyzeCases(A2, cases, match_type, i + 1))))

analyzeMatchStmt(A, stmt) ==
    With(analyzeExpression(A, stmt.expression), LAMBDA A1 :
    With(getExpressionType(A1.scopes, stmt.expression), LAMBDA match_type :
        analyzeCases(A1, stmt.cases, match_type, 1)))

analyzeReturnStmt(A, stmt) ==
    IF A.current_function = ""
    THEN addError(A, "Return statement outside of function", stmt.line)
    ELSE With(analyzeExpression(A, stmt.value), LAMBDA A1 :
         With(IF ~IsNull(stmt.value) THEN getExpressionType(A1.scopes, stmt.value)
              ELSE TypeInfo("VOID"), LAMBDA return_type :
             IF ~TypeInfo_isCompatibleWith(A1.expected_return_type, return_type)
             THEN addError(A1, "Return type mismatch: expected "
                               \o TypeInfo_toString(A1.expected_return_type) \o ", got "
                               \o TypeInfo_toString(return_type), stmt.line)
             ELSE A1))

\* the loop that builds param_types, written out twice in the source
\* (analyzeFuncDecl and the first pass of analyzeClassDecl)
RECURSIVE parameterTypes(_, _, _, _)
parameterTypes(A, decl, i, param_types) ==
    IF i > Len(decl.parameters) THEN [A |-> A, types |-> param_types]
    ELSE With(IF decl.parameters[i].type /= ""
              THEN getBuiltinType(A, decl.parameters[i].type)
              ELSE TypeInfo("VARIANT"), LAMBDA param_type :
             parameterTypes(
                 IF param_type.base_type = "UNKNOWN"
                 THEN addError(A, "Unknown parameter type '" \o decl.parameters[i].type
                                  \o "'", decl.line)
                 ELSE A,
                 decl, i + 1, Append(param_types, param_type)))

\* FunctionSignature signature(decl->name, param_types, return_type,
\* decl->is_static, decl->line): the fifth parameter of the constructor is
\* variadic, so decl->line is converted to bool and line keeps its default
declareFunction(A, decl) ==
    With(parameterTypes(A, decl, 1, <<>>), LAMBDA p :
    With(IF decl.return_type /= "" THEN getBuiltinType(p.A, decl.return_type)
         ELSE TypeInfo("VARIANT"), LAMBDA return_type :
        LET A1 == IF return_type.base_type = "UNKNOWN"
                  THEN addError(p.A, "Unknown return type '" \o decl.return_type \o "'",
                                decl.line)
                  ELSE p.A
            A2 == IF decl.name \in DOMAIN Last(A1.scopes).functions
                  THEN addError(A1, "Function '" \o decl.name \o "' already defined",
                                decl.line)
                  ELSE A1
            signature == FunctionSignature(decl.name, p.types, return_type,
                                           decl.is_static, decl.line /= 0, 0)
        IN  [A |-> Scope_defineFunction(A2, signature), signature |-> signature]))

\* the loop that defines the parameters in the function scope;
\* param_types[i] is read without a bounds check
RECURSIVE defineParameters(_, _, _, _)
defineParameters(A, decl, param_types, i) ==
    CASE i > Len(decl.parameters) -> A
      [] i <= Len(decl.parameters) /\ i > Len(param_types) -> [A EXCEPT !.undefined = TRUE]
      [] OTHER ->
            defineParameters(
                Scope_defineSymbol(A, [Symbol(decl.parameters[i].name, param_types[i],
                                              FALSE, FALSE, decl.line)
                                       EXCEPT !.is_initialized = TRUE]),
                decl, param_types, i + 1)

\* analyzeFunctionBody that returns without exitScope and without restoring
\* current_function and expected_return_type
analyzeFunctionBody_noExit(A, decl, signature) ==
    With(defineParameters([enterScope(A) EXCEPT
                               !.current_function = decl.name,
                               !.expected_return_type = signature.return_type],
                          decl, signature.parameter_types, 1), LAMBDA A1 :
        analyzeStatement(A1, decl.body))

\* enterScope() ... exitScope(): the body of decl under signature
analyzeFunctionBody(A, decl, signature) ==
    With(defineParameters([enterScope(A) EXCEPT
                               !.current_function = decl.name,
                               !.expected_return_type = signature.return_type],
                          decl, signature.parameter_types, 1), LAMBDA A1 :
    With(analyzeStatement(A1, decl.body), LAMBDA A2 :
        exitScope([A2 EXCEPT !.current_function = A.current_function,
                             !.expected_return_type = A.expected_return_type])))

analyzeFuncDecl(A, decl) ==
    With(declareFunction(A, decl), LAMBDA d : analyzeFunctionBody(d.A, decl, d.signature))

ClassInfo(n, base, line) ==
    [name |-> n, base_class |-> base, members |-> EmptyMap, methods |-> EmptyMap,
     signals |-> <<>>, declaration_line |-> line]

\* class_info.members[var_decl->name] = Symbol(...) after a VAR_DECL member
memberSymbol(A, var_decl) ==
    With(getBuiltinType(A, var_decl.var_type), LAMBDA member_type :
        Symbol(var_decl.name,
               IF member_type.base_type = "UNKNOWN" /\ var_decl.var_type /= ""
               THEN TypeInfo("VARIANT") ELSE member_type,
               FALSE, var_decl.is_static, 0))

\* the first pass of analyzeClassDecl: S is the analyzer with the local class_info
RECURSIVE collectMembers(_, _, _), analyzeMethods(_, _, _)
collectMembers(S, members, i) ==
    IF i > Len(members) THEN S
    ELSE With(
        CASE members[i].type = "FUNC_DECL" ->
                With(declareFunction(S.A, members[i]), LAMBDA d :
                    [A |-> d.A,
                     class_info |-> [S.class_info EXCEPT
                         !.methods = Put(@, members[i].name, d.signature)]])
          [] members[i].type = "SIGNAL_DECL" ->
                [A |-> analyzeStatement(S.A, members[i]),
                 class_info |-> [S.class_info EXCEPT
                     !.signals = Append(@, members[i].name)]]
          [] members[i].type = "VAR_DECL" ->
                With(analyzeStatement(S.A, members[i]), LAMBDA A1 :
                    [A |-> A1,
                     class_info |-> [S.class_info EXCEPT
                         !.members = Put(@, members[i].name, memberSymbol(A1, members[i]))]])
          [] members[i].type \in {"CONST_DECL", "ENUM_DECL"} ->
                [A |-> analyzeStatement(S.A, members[i]), class_info |-> S.class_info]
          [] OTHER -> S,
        LAMBDA S1 : collectMembers(S1, members, i + 1))

\* the second pass: the bodies of the methods
analyzeMethods(A, members, i) ==
    IF i > Len(members) THEN A
    ELSE With(
        IF members[i].type = "FUNC_DECL"
           /\ Scope_findFunction(A.scopes, members[i].name) /= nullptr
        THEN analyzeFunctionBody(A, members[i],
                                 Scope_findFunction(A.scopes, members[i].name))
        ELSE A,
        LAMBDA A1 : analyzeMethods(A1, members, i + 1))

\* a class analysis in one pass: each member is analyzed, body included,
\* where it stands, and no method is entered into the class table
analyzeClassDecl_onePass(A, decl) ==
    With(analyzeStatements(enterScope([A EXCEPT !.current_class = decl.name]),
                           decl.members, 1), LAMBDA A1 :
        exitScope([A1 EXCEPT !.classes = Put(@, decl.name,
                                             ClassInfo(decl.name, decl.base_class,
                                                       decl.line)),
                             !.current_class = A.current_class]))

analyzeClassDecl(A, decl) ==
    With(collectMembers(
             [A |-> enterScope([(IF decl.name \in DOMAIN A.classes
                                 THEN addError(A, "Class '" \o decl.name
                                                  \o "' already defined", decl.line)
                                 ELSE A)
                                EXCEPT !.current_class = decl.name]),
              class_info |-> ClassInfo(decl.name, decl.base_class, decl.line)],
             decl.members, 1), LAMBDA S :
    With(analyzeMethods(S.A, decl.members, 1), LAMBDA A1 :
        exitScope([A1 EXCEPT !.classes = Put(@, decl.name, S.class_info),
                             !.current_class = A.current_class])))

analyzeStatement(A, stmt) ==
    CASE IsNull(stmt) -> A
      [] stmt.type = "VAR_DECL" -> analyzeVarDecl(A, stmt)
      [] stmt.type = "CONST_DECL" -> analyzeConstDecl(A, stmt)
      [] stmt.type = "FUNC_DECL" -> analyzeFuncDecl(A, stmt)
      [] stmt.type = "CLASS_DECL" -> analyzeClassDecl(A, stmt)
      [] stmt.type = "SIGNAL_DECL" -> analyzeSignalDecl(A, stmt)
      [] stmt.type = "ENUM_DECL" -> analyzeEnumDecl(A, stmt)
      [] stmt.type = "BLOCK" -> analyzeBlockStmt(A, stmt)
      [] stmt.type = "IF_STMT" -> analyzeIfStmt(A, stmt)
      [] stmt.type = "WHILE_STMT" -> analyzeWhileStmt(A, stmt)
      [] stmt.type = "FOR_STMT" -> analyzeForStmt(A, stmt)
      [] stmt.type = "MATCH_STMT" -> analyzeMatchStmt(A, stmt)
      [] stmt.type = "RETURN_STMT" -> analyzeReturnStmt(A, stmt)
      [] stmt.type = "EXPRESSION_STMT" -> analyzeExpression(A, stmt.expression)
      [] stmt.type \in {"BREAK_STMT", "CONTINUE_STMT"} ->
            IF ~A.in_loop
            THEN addError(A, "Break/continue statement outside of loop", stmt.line)
            ELSE A
      [] stmt.type = "PASS_STMT" -> A
      [] OTHER -> addError(A, "Unknown statement type", stmt.line)

\* hasErrors of an analyzer for which a warning counts as an error
SemanticAnalyzer_hasErrors_orWarnings(A) == A.errors /= <<>> \/ A.warnings /= <<>>

SemanticAnalyzer_hasErrors(A) == A.errors /= <<>>


(***************************************************************************)
(* Code generator (code_generator.h, code_generator.cpp).  The generator   *)
(* G is a record.  Registers are shared objects: G.registers holds every   *)
(* Register object ever made, the sixteen of available_registers first,    *)
(* and an operand, a variable or a parameter is the index of its object    *)
(* (0 for a null pointer), so that renaming a register shows in every      *)
(* instruction that names it.  A function has the one block setupFunction  *)
(* creates; current_function is its index in G.functions (0 for null) and  *)
(* current_block is the block of current_function.                         *)
(***************************************************************************)
Register(id, type, name) == [id |-> id, type |-> type, name |-> name, is_allocated |-> FALSE]

OpCodes ==
    <<"MOV", "LOAD", "STORE", "ADD", "SUB", "MUL", "DIV", "MOD", "FADD", "FSUB", "FMUL",
      "FDIV", "AND", "OR", "XOR", "NOT", "CMP", "FCMP", "JMP", "JE", "JNE", "JL", "JLE",
      "JG", "JGE", "CALL", "RET", "PUSH", "POP", "NOP">>

Mnemonics ==
    <<"mov", "load", "store", "add", "sub", "mul", "div", "mod", "fadd", "fsub", "fmul",
      "fdiv", "and", "or", "xor", "not", "cmp", "fcmp", "jmp", "je", "jne", "jl", "jle",
      "jg", "jge", "call", "ret", "push", "pop", "nop">>

\* Instruction(op), and the instructions the overloads of emit build
Instruction(opcode) ==
    [opcode |-> opcode, operands |-> <<>>, label |-> "", immediate |-> 0,
     has_immediate |-> FALSE]

InstructionOn(opcode, operands) == [Instruction(opcode) EXCEPT !.operands = operands]

InstructionImmediate(opcode, dest, immediate) ==
    [Instruction(opcode) EXCEPT !.operands = <<dest>>, !.immediate = immediate,
                                !.has_immediate = TRUE]

InstructionLabel(opcode, label) == [Instruction(opcode) EXCEPT !.label = label]

RECURSIVE OperandNames(_, _, _)
OperandNames(registers, operands, i) ==
    IF i > Len(operands) THEN ""
    ELSE (IF i > 1 THEN ", " ELSE " ")
         \o (IF operands[i] /= 0 THEN registers[operands[i]].name ELSE "null")
         \o OperandNames(registers, operands, i + 1)

Instruction_toString(registers, instr) ==
    IF instr.opcode = "LABEL" THEN instr.label \o ":"
    ELSE Mnemonics[CHOOSE i \in 1..Len(OpCodes) : OpCodes[i] = instr.opcode]
         \o (IF instr.label /= "" THEN " " \o instr.label
             ELSE OperandNames(registers, instr.operands, 1)
                  \o (IF instr.has_immediate
                      THEN (IF instr.operands /= <<>> THEN ", " ELSE " ")
                           \o "#" \o ToString(instr.immediate)
                      ELSE ""))

\* Function(name) with the entry block of setupFunction
Function(name) ==
    [name |-> name, parameters |-> <<>>, return_register |-> 0,
     blocks |-> <<[label |-> name \o "_entry", instructions |-> <<>>]>>]

\* CodeGenerator(platform, format) and, from generate, semantic_analyzer
\* the i-th register of available_registers: r0..r7, then xmm0..xmm7
AvailableRegister(i) ==
    IF i <= 8 THEN Register(i - 1, "GENERAL", "r" \o ToString(i - 1))
    ELSE Register(i + 91, "FLOAT", "xmm" \o ToString(i - 9))

CodeGenerator(A, format) ==
    [errors |-> <<>>, functions |-> <<>>, function_map |-> EmptyMap,
     current_function |-> 0,
     registers |-> <<AvailableRegister(1), AvailableRegister(2), AvailableRegister(3),
                     AvailableRegister(4), AvailableRegister(5), AvailableRegister(6),
                     AvailableRegister(7), AvailableRegister(8), AvailableRegister(9),
                     AvailableRegister(10), AvailableRegister(11), AvailableRegister(12),
                     AvailableRegister(13), AvailableRegister(14), AvailableRegister(15),
                     AvailableRegister(16)>>,
     allocated_registers |-> <<>>, next_register_id |-> 0, next_label_id |-> 0,
     variables |-> EmptyMap, class_members |-> EmptyMap, current_class_name |-> "",
     break_labels |-> <<>>, continue_labels |-> <<>>,
     semantic_analyzer |-> [global_scope |-> A.scopes[1], classes |-> A.classes],
     output_format |-> format, files |-> EmptyMap, thrown |-> "", undefined |-> FALSE]

CodeGenerator_addError(G, message) ==
    [G EXCEPT !.errors = Append(@, "Code Generation Error: " \o message)]

CodeGenerator_hasErrors(G) == G.errors /= <<>>

\* a register returned by a call, with the generator after the call
Reg(G, reg) == [G |-> G, reg |-> reg]

allocateVirtualRegister(G, type) ==
    Reg([G EXCEPT !.next_register_id = @ + 1,
                  !.registers = Append(@, Register(G.next_register_id + 1, type,
                                               "v" \o ToString(G.next_register_id)))],
        Len(G.registers) + 1)

allocateRegister(G, type) ==
    LET free == {i \in 1..16 : ~G.registers[i].is_allocated /\ G.registers[i].type = type}
    IN  IF free /= {}
        THEN LET reg == CHOOSE i \in free : \A j \in free : i <= j
             IN  Reg([G EXCEPT !.registers[reg].is_allocated = TRUE,
                               !.allocated_registers = Append(@, reg)], reg)
        ELSE allocateVirtualRegister(G, type)

\* the sequence s without its first element equal to x
RECURSIVE Erase(_, _)
Erase(s, x) ==
    CASE s = <<>> -> <<>>
      [] s /= <<>> /\ Head(s) = x -> Tail(s)
      [] OTHER -> <<Head(s)>> \o Erase(Tail(s), x)

\* freeRegister without the erase from allocated_registers
freeRegister_flagOnly(G, reg) ==
    IF reg /= 0 /\ G.registers[reg].is_allocated
    THEN [G EXCEPT !.registers[reg].is_allocated = FALSE]
    ELSE G

freeRegister(G, reg) ==
    IF reg /= 0 /\ G.registers[reg].is_allocated
    THEN [G EXCEPT !.registers[reg].is_allocated = FALSE,
                   !.allocated_registers = Erase(@, reg)]
    ELSE G

\* reg->name = name
Rename(G, reg, name) == [G EXCEPT !.registers[reg].name = name]

generateLabel(G, prefix) ==
    [G |-> [G EXCEPT !.next_label_id = @ + 1],
     label |-> prefix \o "_" \o ToString(G.next_label_id)]

\* the overloads of emit: the instruction goes to current_block, if there is one
emit(G, instr) ==
    IF G.current_function /= 0
    THEN [G EXCEPT !.functions[G.current_function].blocks[1].instructions =
                       Append(@, instr)]
    ELSE G

emitLabel(G, label) == emit(G, InstructionLabel("LABEL", label))

setupFunction(G, name) ==
    [G EXCEPT !.functions = Append(@, Function(name)),
              !.current_function = Len(G.functions) + 1,
              !.function_map = Put(@, name, Len(G.functions) + 1),
              !.variables = IF G.current_class_name /= "" THEN G.class_members
                            ELSE EmptyMap]

finalizeFunction(G) == [G EXCEPT !.current_function = 0]

RECURSIVE emitAll(_, _)
emitAll(G, instrs) ==
    IF instrs = <<>> THEN G ELSE emitAll(emit(G, Head(instrs)), Tail(instrs))

\* the largest int: std::stoi throws std::out_of_range above it
INT_MAX == 2147483647

\* the int a string of decimal digits denotes, -1 if it is above INT_MAX
RECURSIVE Decimal(_)
Decimal(digits) ==
    IF digits = "" THEN 0
    ELSE With(Decimal(SubSeq(digits, 1, Len(digits) - 1)), LAMBDA high :
         With(CHOOSE d \in 0..9 : ToString(d) = SubSeq(digits, Len(digits), Len(digits)),
              LAMBDA digit :
             IF high < 0 \/ high > INT_MAX \div 10
                \/ (high = INT_MAX \div 10 /\ digit > INT_MAX % 10)
             THEN -1 ELSE 10 * high + digit))

\* static_cast<int>(std::stof(value) * 1000) for a value of the form digits.digits
\* whose product is exact in float arithmetic
stofTimes1000(value) ==
    LET dot == Find(value, ".", 1)
        thousandths == SubSeq(SubSeq(value, dot + 1, Len(value)) \o "000", 1, 3)
    IN  1000 * Decimal(SubSeq(value, 1, dot - 1)) + Decimal(thousandths)

generateLiteralExpr(G, expr) ==
    With(allocateRegister(G, "GENERAL"), LAMBDA r :
        CASE expr.literal_type = "INTEGER" ->
                With(Decimal(expr.value), LAMBDA value :
                    IF value < 0 THEN Reg([r.G EXCEPT !.thrown = "stoi"], r.reg)
                    ELSE Reg(emit(r.G, InstructionImmediate("MOV", r.reg, value)), r.reg))
          [] expr.literal_type = "FLOAT" ->
                With(allocateRegister(r.G, "FLOAT"), LAMBDA f :
                    Reg(emit(f.G, InstructionImmediate("MOV", f.reg,
                                                       stofTimes1000(expr.value))), f.reg))
          [] expr.literal_type = "BOOLEAN" ->
                Reg(emit(r.G, InstructionImmediate("MOV", r.reg,
                                  IF expr.value = "true" THEN 1 ELSE 0)), r.reg)
          [] OTHER -> Reg(emit(r.G, InstructionImmediate("MOV", r.reg, 0)), r.reg))

\* auto result_reg = allocateRegister(); emit(MOV, result_reg, src); return result_reg
MoveToNew(G, src) ==
    With(allocateRegister(G, "GENERAL"), LAMBDA r :
        Reg(emit(r.G, InstructionOn("MOV", <<r.reg, src>>)), r.reg))

\* auto result_reg = allocateRegister(); emit(MOV, result_reg, 0); return result_reg
ZeroToNew(G) ==
    With(allocateRegister(G, "GENERAL"), LAMBDA r :
        Reg(emit(r.G, InstructionImmediate("MOV", r.reg, 0)), r.reg))

generateIdentifierExpr(G, expr) ==
    LET name == expr.name
        global_scope == G.semantic_analyzer.global_scope
        classes == G.semantic_analyzer.classes
        inClass == G.current_class_name /= "" /\ G.current_class_name \in DOMAIN classes
    IN  IF name \in DOMAIN G.variables THEN MoveToNew(G, G.variables[name])
        ELSE IF name \in DOMAIN G.class_members THEN MoveToNew(G, G.class_members[name])
        ELSE IF name \in DOMAIN global_scope.symbols
        THEN With(allocateRegister(G, "GENERAL"), LAMBDA v :
                 MoveToNew([Rename(v.G, v.reg, name)
                               EXCEPT !.variables = Put(@, name, v.reg)], v.reg))
        ELSE IF name \in DOMAIN global_scope.functions THEN ZeroToNew(G)
        ELSE IF inClass /\ name \in DOMAIN classes[G.current_class_name].members
        THEN With(allocateRegister(G, "GENERAL"), LAMBDA m :
                 MoveToNew([Rename(m.G, m.reg, name)
                               EXCEPT !.class_members = Put(@, name, m.reg)], m.reg))
        ELSE IF inClass /\ name \in DOMAIN classes[G.current_class_name].methods
        THEN ZeroToNew(G)
        ELSE allocateRegister(CodeGenerator_addError(G, "Undefined variable: " \o name),
                              "GENERAL")

ArithmeticOps ==
    [PLUS |-> "ADD", MINUS |-> "SUB", MULTIPLY |-> "MUL", DIVIDE |-> "DIV",
     MODULO |-> "MOD"] @@ ("AND" :> "AND") @@ ("OR" :> "OR")

CompoundOps ==
    [PLUS_ASSIGN |-> "ADD", MINUS_ASSIGN |-> "SUB", MULTIPLY_ASSIGN |-> "MUL",
     DIVIDE_ASSIGN |-> "DIV", MODULO_ASSIGN |-> "MOD"]

JumpOps ==
    [EQUAL |-> "JE", NOT_EQUAL |-> "JNE", LESS |-> "JL", LESS_EQUAL |-> "JLE",
     GREATER |-> "JG", GREATER_EQUAL |-> "JGE"]

\* the switch of generateBinaryOpExpr
BinaryOpCode(G, op, result_reg, left_reg, right_reg) ==
    CASE op \in DOMAIN ArithmeticOps ->
            emit(G, InstructionOn(ArithmeticOps[op], <<result_reg, left_reg, right_reg>>))
      [] op \in DOMAIN JumpOps ->
            With(generateLabel(emit(G, InstructionOn("CMP", <<left_reg, right_reg>>)),
                               "cmp_true"), LAMBDA true_label :
            With(generateLabel(true_label.G, "cmp_end"), LAMBDA end_label :
                emitAll(end_label.G,
                    <<InstructionLabel(JumpOps[op], true_label.label),
                      InstructionImmediate("MOV", result_reg, 0),
                      InstructionLabel("JMP", end_label.label),
                      InstructionLabel("LABEL", true_label.label),
                      InstructionImmediate("MOV", result_reg, 1),
                      InstructionLabel("LABEL", end_label.label)>>)))
      [] op \in {"ASSIGN", "TYPE_INFER_ASSIGN"} ->
            emitAll(G, <<InstructionOn("MOV", <<left_reg, right_reg>>),
                         InstructionOn("MOV", <<result_reg, left_reg>>)>>)
      [] op \in DOMAIN CompoundOps ->
            emitAll(G, <<InstructionOn(CompoundOps[op], <<left_reg, left_reg, right_reg>>),
                         InstructionOn("MOV", <<result_reg, left_reg>>)>>)
      [] OTHER ->
            emit(CodeGenerator_addError(G, "Unknown binary operator"),
                 InstructionImmediate("MOV", result_reg, 0))

\* emit(PUSH, *it) for the registers of args from the last to the first
RECURSIVE PushReversed(_, _)
PushReversed(G, args) ==
    IF args = <<>> THEN G
    ELSE PushReversed(emit(G, InstructionOn("PUSH", <<Last(args)>>)), Front(args))

\* a clean-up that pops nothing
PopEach_none(G, n) == G

\* n times emit(POP, allocateRegister())
RECURSIVE PopEach(_, _)
PopEach(G, n) ==
    IF n = 0 THEN G
    ELSE With(allocateRegister(G, "GENERAL"), LAMBDA r :
             PopEach(emit(r.G, InstructionOn("POP", <<r.reg>>)), n - 1))

RECURSIVE FreeAll(_, _)
FreeAll(G, regs) ==
    IF regs = <<>> THEN G ELSE FreeAll(freeRegister(G, Head(regs)), Tail(regs))

builtin_functions ==
    [len |-> "_builtin_len", range |-> "_builtin_range", str |-> "_builtin_str",
     int |-> "_builtin_int", float |-> "_builtin_float"] @@ ("print" :> "_builtin_print")

isBuiltinFunction(name) == name \in DOMAIN builtin_functions

generateBuiltinCall(G, name, args) ==
    With(allocateRegister(G, "GENERAL"), LAMBDA result :
        Reg(PopEach(emit(PushReversed(result.G, args),
                         InstructionLabel("CALL", builtin_functions[name])),
                    Len(args)),
            result.reg))

RECURSIVE generateExpression(_, _), generateExpressions(_, _, _, _),
          generateBinaryOpExpr(_, _), generateUnaryOpExpr(_, _), generateCallExpr(_, _),
          generateMemberAccessExpr(_, _), generateArrayAccessExpr(_, _),
          generateArrayLiteralExpr(_, _), appendElements(_, _, _, _),
          generateDictLiteralExpr(_, _), setPairs(_, _, _, _),
          generateLambdaExpr(_, _), generateTernaryExpr(_, _)

\* the argument loop of generateCallExpr: the generator and arg_regs
generateExpressions(G, exprs, i, regs) ==
    IF i > Len(exprs) THEN [G |-> G, regs |-> regs]
    ELSE With(generateExpression(G, exprs[i]), LAMBDA r :
             generateExpressions(r.G, exprs, i + 1, Append(regs, r.reg)))

generateBinaryOpExpr(G, expr) ==
    With(generateExpression(G, expr.left), LAMBDA left :
    With(generateExpression(left.G, expr.right), LAMBDA right :
    With(allocateRegister(right.G, "GENERAL"), LAMBDA result :
        Reg(FreeAll(BinaryOpCode(result.G, expr.operator_type, result.reg,
                                 left.reg, right.reg),
                    <<left.reg, right.reg>>),
            result.reg))))

generateUnaryOpExpr(G, expr) ==
    With(generateExpression(G, expr.operand), LAMBDA operand :
    With(allocateRegister(operand.G, "GENERAL"), LAMBDA result :
        LET op == expr.operator_type
            G1 == CASE op = "MINUS" ->
                          With(allocateRegister(result.G, "GENERAL"), LAMBDA zero :
                              emit(zero.G, InstructionOn("SUB",
                                       <<result.reg, zero.reg, operand.reg>>)))
                    [] op = "PLUS" ->
                          emit(result.G, InstructionOn("MOV", <<result.reg, operand.reg>>))
                    [] op \in {"NOT", "LOGICAL_NOT"} ->
                          emit(result.G, InstructionOn("NOT", <<result.reg, operand.reg>>))
                    [] OTHER ->
                          emit(CodeGenerator_addError(result.G, "Unknown unary operator"),
                               InstructionOn("MOV", <<result.reg, operand.reg>>))
        IN  Reg(freeRegister(G1, operand.reg), result.reg)))

generateCallExpr(G, expr) ==
    With(generateExpressions(G, expr.arguments, 1, <<>>), LAMBDA args :
        IF expr.callee.type = "IDENTIFIER" /\ isBuiltinFunction(expr.callee.name)
        THEN With(generateBuiltinCall(args.G, expr.callee.name, args.regs), LAMBDA result :
                 Reg(FreeAll(result.G, args.regs), result.reg))
        ELSE With(PushReversed(args.G, args.regs), LAMBDA G1 :
             With(IF expr.callee.type = "IDENTIFIER"
                  THEN emit(G1, InstructionLabel("CALL", expr.callee.name))
                  ELSE With(generateExpression(G1, expr.callee), LAMBDA callee :
                           IF callee.reg = 0 THEN [callee.G EXCEPT !.undefined = TRUE]
                           ELSE freeRegister(
                                    emit(callee.G, InstructionLabel("CALL",
                                             callee.G.registers[callee.reg].name)),
                                    callee.reg)), LAMBDA G2 :
             With(allocateRegister(PopEach(G2, Len(args.regs)), "GENERAL"), LAMBDA result :
                 Reg(FreeAll(result.G, args.regs), result.reg)))))

generateMemberAccessExpr(G, expr) ==
    With(generateExpression(G, expr.object), LAMBDA object :
    With(allocateRegister(object.G, "GENERAL"), LAMBDA result :
        Reg(freeRegister(emit(result.G, InstructionOn("LOAD", <<result.reg, object.reg>>)),
                         object.reg),
            result.reg)))

generateArrayAccessExpr(G, expr) ==
    With(generateExpression(G, expr.array), LAMBDA array :
    With(generateExpression(array.G, expr.index), LAMBDA index :
    With(allocateRegister(index.G, "GENERAL"), LAMBDA result :
        Reg(FreeAll(PopEach(emitAll(result.G,
                                <<InstructionOn("PUSH", <<array.reg>>),
                                  InstructionOn("PUSH", <<index.reg>>),
                                  InstructionLabel("CALL", "_array_get")>>), 2),
                    <<array.reg, index.reg>>),
            result.reg))))

\* the element loop of generateArrayLiteralExpr
appendElements(G, elements, i, result_reg) ==
    IF i > Len(elements) THEN G
    ELSE With(generateExpression(G, elements[i]), LAMBDA element :
             appendElements(
                 freeRegister(
                     PopEach(emitAll(element.G,
                                 <<InstructionOn("PUSH", <<result_reg>>),
                                   InstructionOn("PUSH", <<element.reg>>),
                                   InstructionLabel("CALL", "_array_append")>>), 2),
                     element.reg),
                 elements, i + 1, result_reg))

generateArrayLiteralExpr(G, expr) ==
    With(allocateRegister(G, "GENERAL"), LAMBDA result :
        Reg(appendElements(emit(result.G, InstructionLabel("CALL", "_array_create")),
                           expr.elements, 1, result.reg),
            result.reg))

\* the pair loop of generateDictLiteralExpr
setPairs(G, pairs, i, result_reg) ==
    IF i > Len(pairs) THEN G
    ELSE With(generateExpression(G, pairs[i][1]), LAMBDA key :
         With(generateExpression(key.G, pairs[i][2]), LAMBDA value :
             setPairs(
                 FreeAll(PopEach(emitAll(value.G,
                                     <<InstructionOn("PUSH", <<result_reg>>),
                                       InstructionOn("PUSH", <<key.reg>>),
                                       InstructionOn("PUSH", <<value.reg>>),
                                       InstructionLabel("CALL", "_dict_set")>>), 3),
                         <<key.reg, value.reg>>),
                 pairs, i + 1, result_reg)))

generateDictLiteralExpr(G, expr) ==
    With(allocateRegister(G, "GENERAL"), LAMBDA result :
        Reg(setPairs(emit(result.G, InstructionLabel("CALL", "_dict_create")),
                     expr.pairs, 1, result.reg),
            result.reg))

\* variables[param.name] = allocateRegister() for the parameters of a lambda
RECURSIVE lambdaParameters(_, _, _)
lambdaParameters(G, params, i) ==
    IF i > Len(params) THEN G
    ELSE With(allocateRegister(G, "GENERAL"), LAMBDA param :
             lambdaParameters([param.G EXCEPT !.variables = Put(@, params[i].name,
                                                                param.reg)],
                              params, i + 1))

generateLambdaExpr(G, expr) ==
    With(lambdaParameters(
             setupFunction([G EXCEPT !.next_label_id = @ + 1],
                           "_lambda_" \o ToString(G.next_label_id)),
             expr.parameters, 1), LAMBDA G1 :
    With(generateExpression(G1, expr.body), LAMBDA body :
    With(allocateRegister(body.G, "GENERAL"), LAMBDA result :
        ZeroToNew(
            [finalizeFunction(
                 freeRegister(
                     emitAll(result.G, <<InstructionOn("MOV", <<result.reg, body.reg>>),
                                         Instruction("RET")>>),
                     body.reg))
             EXCEPT !.current_function = G.current_function,
                    !.variables = G.variables]))))

generateTernaryExpr(G, expr) ==
    With(generateExpression(G, expr.condition), LAMBDA condition :
    With(generateLabel(condition.G, "ternary_false"), LAMBDA false_label :
    With(generateLabel(false_label.G, "ternary_end"), LAMBDA end_label :
    With(generateExpression(
             freeRegister(
                 emitAll(end_label.G,
                     <<InstructionImmediate("CMP", condition.reg, 0),
                       InstructionLabel("JE", false_label.label)>>),
                 condition.reg),
             expr.true_expr), LAMBDA true_reg :
    With(allocateRegister(true_reg.G, "GENERAL"), LAMBDA result :
    With(generateExpression(
             emitAll(freeRegister(
                         emit(result.G, InstructionOn("MOV", <<result.reg, true_reg.reg>>)),
                         true_reg.reg),
                 <<InstructionLabel("JMP", end_label.label),
                   InstructionLabel("LABEL", false_label.label)>>),
             expr.false_expr), LAMBDA false_reg :
        Reg(emit(freeRegister(
                     emit(false_reg.G,
                          InstructionOn("MOV", <<result.reg, false_reg.reg>>)),
                     false_reg.reg),
                 InstructionLabel("LABEL", end_label.label)),
            result.reg)))))))

generateExpression(G, expr) ==
    CASE IsNull(expr) -> Reg(G, 0)
      [] expr.type = "LITERAL" -> generateLiteralExpr(G, expr)
      [] expr.type = "IDENTIFIER" -> generateIdentifierExpr(G, expr)
      [] expr.type = "BINARY_OP" -> generateBinaryOpExpr(G, expr)
      [] expr.type = "UNARY_OP" -> generateUnaryOpExpr(G, expr)
      [] expr.type = "CALL" -> generateCallExpr(G, expr)
      [] expr.type = "MEMBER_ACCESS" -> generateMemberAccessExpr(G, expr)
      [] expr.type = "ARRAY_ACCESS" -> generateArrayAccessExpr(G, expr)
      [] expr.type = "ARRAY_LITERAL" -> generateArrayLiteralExpr(G, expr)
      [] expr.type = "DICT_LITERAL" -> generateDictLiteralExpr(G, expr)
      [] expr.type = "LAMBDA" -> generateLambdaExpr(G, expr)
      [] expr.type = "TERNARY" -> generateTernaryExpr(G, expr)
      [] OTHER -> allocateRegister(
                      CodeGenerator_addError(G, "Unknown expression type in code generation"),
                      "GENERAL")

\* the parameter loop of generateFuncDecl and generateClassDecl
RECURSIVE addParameters(_, _, _)
addParameters(G, params, i) ==
    IF i > Len(params) THEN G
    ELSE With(allocateRegister(G, "GENERAL"), LAMBDA param :
             addParameters(
                 [Rename(param.G, param.reg, params[i].name)
                     EXCEPT !.variables = Put(@, params[i].name, param.reg),
                            !.functions[G.current_function].parameters =
                                Append(@, param.reg)],
                 params, i + 1))

\* 'Ensure function returns': current_block is null after a function
\* declaration nested in the body, and the test reads through it
ensureReturns(G, addDefault) ==
    IF G.current_function = 0 THEN [G EXCEPT !.undefined = TRUE]
    ELSE LET instructions == G.functions[G.current_function].blocks[1].instructions
         IN  IF instructions = <<>> \/ Last(instructions).opcode /= "RET"
             THEN IF addDefault
                  THEN With(allocateRegister(G, "GENERAL"), LAMBDA return_reg :
                           emitAll(return_reg.G,
                                   <<InstructionImmediate("MOV", return_reg.reg, 0),
                                     Instruction("RET")>>))
                  ELSE emit(G, Instruction("RET"))
             ELSE G

RECURSIVE generateStatement(_, _), generateStatements(_, _, _), generateVarDecl(_, _),
          generateConstDecl(_, _), generateFuncDecl(_, _), generateClassDecl(_, _),
          generateMethods(_, _, _), generateIfStmt(_, _), generateWhileStmt(_, _),
          generateForStmt(_, _), generateMatchStmt(_, _), generatePatterns(_, _, _, _, _),
          generateCaseBodies(_, _, _, _, _), generateReturnStmt(_, _)

generateVarDecl(G, decl) ==
    With(allocateRegister(G, "GENERAL"), LAMBDA var :
    With([Rename(var.G, var.reg, decl.name)
             EXCEPT !.variables = Put(@, decl.name, var.reg)], LAMBDA G1 :
        IF ~IsNull(decl.initializer)
        THEN With(generateExpression(G1, decl.initializer), LAMBDA init :
                 freeRegister(emit(init.G, InstructionOn("MOV", <<var.reg, init.reg>>)),
                              init.reg))
        ELSE emit(G1, InstructionImmediate("MOV", var.reg, 0))))

generateConstDecl(G, decl) ==
    With(allocateRegister(G, "GENERAL"), LAMBDA const :
    With(generateExpression([Rename(const.G, const.reg, decl.name)
                                EXCEPT !.variables = Put(@, decl.name, const.reg)],
                            decl.value), LAMBDA value :
        freeRegister(emit(value.G, InstructionOn("MOV", <<const.reg, value.reg>>)),
                     value.reg)))

generateFuncDecl(G, decl) ==
    With(generateStatement(addParameters(setupFunction(G, decl.name), decl.parameters, 1),
                           decl.body), LAMBDA G1 :
        finalizeFunction(ensureReturns(G1, decl.return_type \notin {"", "void"})))

\* class_members[var_decl->name] = member_reg for the VAR_DECL members
RECURSIVE registerMembers(_, _, _)
registerMembers(G, members, i) ==
    CASE i > Len(members) -> G
      [] i <= Len(members) /\ members[i].type = "VAR_DECL" ->
            With(allocateRegister(G, "GENERAL"), LAMBDA member :
                registerMembers(
                    [Rename(member.G, member.reg, members[i].name)
                        EXCEPT !.class_members = Put(@, members[i].name, member.reg)],
                    members, i + 1))
      [] OTHER -> registerMembers(G, members, i + 1)

\* the 'self' parameter of a method that is not static
selfParameter(G) ==
    With(allocateRegister(G, "GENERAL"), LAMBDA self :
        [Rename(self.G, self.reg, "self")
            EXCEPT !.variables = Put(@, "self", self.reg),
                   !.functions[G.current_function].parameters = Append(@, self.reg)])

generateMethods(G, decl, i) ==
    CASE i > Len(decl.members) -> G
      [] i <= Len(decl.members) /\ decl.members[i].type = "FUNC_DECL" ->
            LET method == decl.members[i]
            IN  With(setupFunction(G, decl.name \o "_" \o method.name), LAMBDA G1 :
                With(generateStatement(
                         addParameters(IF method.is_static THEN G1 ELSE selfParameter(G1),
                                       method.parameters, 1),
                         method.body), LAMBDA G2 :
                    generateMethods(finalizeFunction(ensureReturns(G2, FALSE)),
                                    decl, i + 1)))
      [] OTHER -> generateMethods(G, decl, i + 1)

generateClassDecl(G, decl) ==
    With(generateMethods(
             registerMembers([G EXCEPT !.current_class_name = decl.name],
                             decl.members, 1),
             decl, 1), LAMBDA G1 :
        [G1 EXCEPT !.current_class_name = ""])

generateSignalDecl(G) ==
    With(allocateRegister(G, "GENERAL"), LAMBDA signal_name :
        freeRegister(emitAll(signal_name.G,
                             <<InstructionImmediate("MOV", signal_name.reg, 0),
                               InstructionLabel("CALL", "_register_signal")>>),
                     signal_name.reg))

generateStatements(G, statements, i) ==
    IF i > Len(statements) THEN G
    ELSE generateStatements(generateStatement(G, statements[i]), statements, i + 1)

generateIfStmt(G, stmt) ==
    With(generateExpression(G, stmt.condition), LAMBDA condition :
    With(generateLabel(condition.G, "else"), LAMBDA else_label :
    With(generateLabel(else_label.G, "endif"), LAMBDA end_label :
    With(generateStatement(
             freeRegister(emitAll(end_label.G,
                              <<InstructionImmediate("CMP", condition.reg, 0),
                                InstructionLabel("JE", else_label.label)>>),
                          condition.reg),
             stmt.then_branch), LAMBDA G1 :
    With(generateStatement(
             emitAll(G1, <<InstructionLabel("JMP", end_label.label),
                           InstructionLabel("LABEL", else_label.label)>>),
             stmt.else_branch), LAMBDA G2 :
        emitLabel(G2, end_label.label))))))

pushLabels(G, break_label, continue_label) ==
    [G EXCEPT !.break_labels = Append(@, break_label),
              !.continue_labels = Append(@, continue_label)]

popLabels(G) ==
    [G EXCEPT !.break_labels = IF @ = <<>> THEN @ ELSE Front(@),
              !.continue_labels = IF @ = <<>> THEN @ ELSE Front(@)]

generateWhileStmt(G, stmt) ==
    With(generateLabel(G, "while_loop"), LAMBDA loop_label :
    With(generateLabel(loop_label.G, "while_end"), LAMBDA end_label :
    With(generateExpression(
             emitLabel(pushLabels(end_label.G, end_label.label, loop_label.label),
                       loop_label.label),
             stmt.condition), LAMBDA condition :
    With(generateStatement(
             freeRegister(emitAll(condition.G,
                              <<InstructionImmediate("CMP", condition.reg, 0),
                                InstructionLabel("JE", end_label.label)>>),
                          condition.reg),
             stmt.body), LAMBDA G1 :
        popLabels(emitAll(G1, <<InstructionLabel("JMP", loop_label.label),
                                InstructionLabel("LABEL", end_label.label)>>))))))

generateForStmt(G, stmt) ==
    With(generateExpression(G, stmt.iterable), LAMBDA iterable :
    With(allocateRegister(iterable.G, "GENERAL"), LAMBDA iterator :
    With(allocateRegister(iterator.G, "GENERAL"), LAMBDA loop_var :
    With(generateLabel([Rename(loop_var.G, loop_var.reg, stmt.variable)
                           EXCEPT !.variables = Put(@, stmt.variable, loop_var.reg)],
                       "for_loop"), LAMBDA loop_label :
    With(generateLabel(loop_label.G, "for_end"), LAMBDA end_label :
    With(allocateRegister(
             emitAll(pushLabels(end_label.G, end_label.label, loop_label.label),
                     <<InstructionImmediate("MOV", iterator.reg, 0),
                       InstructionLabel("LABEL", loop_label.label),
                       InstructionLabel("CALL", "_iterator_valid")>>),
             "GENERAL"), LAMBDA valid :
    With(allocateRegister(
             emit(freeRegister(emitAll(valid.G,
                                   <<InstructionImmediate("CMP", valid.reg, 0),
                                     InstructionLabel("JE", end_label.label)>>),
                               valid.reg),
                  InstructionLabel("CALL", "_iterator_get")),
             "GENERAL"), LAMBDA current :
    With(generateStatement(
             emit(current.G, InstructionOn("MOV", <<loop_var.reg, current.reg>>)),
             stmt.body), LAMBDA G1 :
        popLabels(
            FreeAll(emitAll(G1, <<InstructionLabel("CALL", "_iterator_next"),
                                  InstructionLabel("JMP", loop_label.label),
                                  InstructionLabel("LABEL", end_label.label)>>),
                    <<iterable.reg, iterator.reg>>))))))))))

\* generateLabel("match_case_" + std::to_string(i)) for the cases 0 .. n - 1
RECURSIVE caseLabels(_, _, _, _)
caseLabels(G, n, i, labels) ==
    IF i >= n THEN [G |-> G, labels |-> labels]
    ELSE With(generateLabel(G, "match_case_" \o ToString(i)), LAMBDA l :
             caseLabels(l.G, n, i + 1, Append(labels, l.label)))

generatePatterns(G, cases, i, case_labels, expr_reg) ==
    IF i > Len(cases) THEN G
    ELSE With(generateExpression(G, cases[i].pattern), LAMBDA pattern :
             generatePatterns(
                 freeRegister(emitAll(pattern.G,
                                  <<InstructionOn("CMP", <<expr_reg, pattern.reg>>),
                                    InstructionLabel("JE", case_labels[i])>>),
                              pattern.reg),
                 cases, i + 1, case_labels, expr_reg))

generateCaseBodies(G, cases, i, case_labels, end_label) ==
    IF i > Len(cases) THEN G
    ELSE With(generateStatement(emitLabel(G, case_labels[i]), cases[i].body), LAMBDA G1 :
             generateCaseBodies(emit(G1, InstructionLabel("JMP", end_label)),
                                cases, i + 1, case_labels, end_label))

generateMatchStmt(G, stmt) ==
    With(generateExpression(G, stmt.expression), LAMBDA expr :
    With(generateLabel(expr.G, "match_end"), LAMBDA end_label :
    With(caseLabels(end_label.G, Len(stmt.cases), 0, <<>>), LAMBDA case_labels :
    With(generatePatterns(case_labels.G, stmt.cases, 1, case_labels.labels, expr.reg),
         LAMBDA G1 :
    With(generateCaseBodies(emit(G1, InstructionLabel("JMP", end_label.label)),
                            stmt.cases, 1, case_labels.labels, end_label.label),
         LAMBDA G2 :
        freeRegister(emitLabel(G2, end_label.label), expr.reg))))))

generateReturnStmt(G, stmt) ==
    IF ~IsNull(stmt.value)
    THEN With(generateExpression(G, stmt.value), LAMBDA return_reg :
             LET G1 == return_reg.G
                 function == G1.current_function
             IN  emit(freeRegister(
                          IF function /= 0 /\ G1.functions[function].return_register /= 0
                          THEN emit(G1, InstructionOn("MOV",
                                       <<G1.functions[function].return_register,
                                         return_reg.reg>>))
                          ELSE G1,
                          return_reg.reg),
                      Instruction("RET")))
    ELSE emit(G, Instruction("RET"))

\* generateBreakStmt and generateContinueStmt
generateJumpOut(G, labels, word) ==
    IF labels /= <<>> THEN emit(G, InstructionLabel("JMP", Last(labels)))
    ELSE CodeGenerator_addError(G, word \o " statement outside of loop")

generateStatement(G, stmt) ==
    CASE IsNull(stmt) -> G
      [] stmt.type = "VAR_DECL" -> generateVarDecl(G, stmt)
      [] stmt.type = "CONST_DECL" -> generateConstDecl(G, stmt)
      [] stmt.type = "FUNC_DECL" -> generateFuncDecl(G, stmt)
      [] stmt.type = "CLASS_DECL" -> generateClassDecl(G, stmt)
      [] stmt.type = "SIGNAL_DECL" -> generateSignalDecl(G)
      [] stmt.type = "ENUM_DECL" -> G
      [] stmt.type = "BLOCK" -> generateStatements(G, stmt.statements, 1)
      [] stmt.type = "IF_STMT" -> generateIfStmt(G, stmt)
      [] stmt.type = "WHILE_STMT" -> generateWhileStmt(G, stmt)
      [] stmt.type = "FOR_STMT" -> generateForStmt(G, stmt)
      [] stmt.type = "MATCH_STMT" -> generateMatchStmt(G, stmt)
      [] stmt.type = "RETURN_STMT" -> generateReturnStmt(G, stmt)
      [] stmt.type = "EXPRESSION_STMT" ->
            With(generateExpression(G, stmt.expression), LAMBDA result :
                freeRegister(result.G, result.reg))
      [] stmt.type = "BREAK_STMT" -> generateJumpOut(G, G.break_labels, "Break")
      [] stmt.type = "CONTINUE_STMT" -> generateJumpOut(G, G.continue_labels, "Continue")
      [] stmt.type = "PASS_STMT" -> emit(G, Instruction("NOP"))
      [] OTHER -> CodeGenerator_addError(G, "Unknown statement type in code generation")

\* the end of generateProgram: main is made if no function has the name
generateMain(G) ==
    IF "main" \notin DOMAIN G.function_map
    THEN With(allocateRegister(setupFunction(G, "main"), "GENERAL"), LAMBDA r :
             finalizeFunction(emitAll(r.G, <<InstructionImmediate("MOV", r.reg, 0),
                                             Instruction("RET")>>)))
    ELSE G

\* the operands of the instructions of every function
Operands(G) ==
    UNION {UNION {{instr.operands[o] : o \in 1..Len(instr.operands)} :
                     instr \in {G.functions[f].blocks[1].instructions[k] :
                                   k \in 1..Len(G.functions[f].blocks[1].instructions)}} :
           f \in 1..Len(G.functions)}

performDeadCodeElimination(G) ==
    [G EXCEPT !.functions =
        [f \in 1..Len(G.functions) |->
            [G.functions[f] EXCEPT !.blocks[1].instructions =
                SelectSeq(@, LAMBDA instr : instr.opcode /= "NOP")]]]

\* an operand of type VIRTUAL takes the name and the id of the first physical
\* register that is free and has the operand's type
performRegisterAllocation(G) ==
    LET free(type) == {i \in 1..16 : ~G.registers[i].is_allocated
                                       /\ G.registers[i].type = type}
        first(type) == CHOOSE i \in free(type) : \A j \in free(type) : i <= j
    IN  [G EXCEPT !.registers =
            [r \in 1..Len(G.registers) |->
                IF r \in Operands(G) /\ G.registers[r].type = "VIRTUAL"
                   /\ free("VIRTUAL") /= {}
                THEN [G.registers[r] EXCEPT !.name = G.registers[first("VIRTUAL")].name,
                                            !.id = G.registers[first("VIRTUAL")].id]
                ELSE G.registers[r]]]

optimizeCode(G) == performRegisterAllocation(performDeadCodeElimination(G))

\* the lines writeAssembly writes
RECURSIVE AssemblyOf(_, _, _)
AssemblyOf(G, f, k) ==
    CASE f > Len(G.functions) -> <<>>
      [] f <= Len(G.functions) /\ k = 0 ->
            <<G.functions[f].name \o ":">> \o AssemblyOf(G, f, 1)
      [] f <= Len(G.functions) /\ k > Len(G.functions[f].blocks[1].instructions) ->
            <<"">> \o AssemblyOf(G, f + 1, 0)
      [] OTHER ->
            <<"    " \o Instruction_toString(G.registers,
                                             G.functions[f].blocks[1].instructions[k])>>
            \o AssemblyOf(G, f, k + 1)

writeAssembly(G, opens) ==
    IF ~opens THEN CodeGenerator_addError(G, "Cannot open output file: .s")
    ELSE [G EXCEPT !.files = Put(@, ".s", <<".section .text", ".global _start", "">>
                                          \o AssemblyOf(G, 1, 0))]

\* the simplified object format: the magic, then for each function its name
\* and the opcodes of its instructions
writeObjectFile(G, opens) ==
    IF ~opens THEN CodeGenerator_addError(G, "Cannot open object file: .o")
    ELSE [G EXCEPT !.files = Put(@, ".o",
             [magic |-> "GDOBJ",
              functions |-> [f \in 1..Len(G.functions) |->
                  [name |-> G.functions[f].name,
                   opcodes |-> [k \in 1..Len(G.functions[f].blocks[1].instructions) |->
                                   G.functions[f].blocks[1].instructions[k].opcode]]]])]

(***************************************************************************)
(* Executable images.  A byte is a number in 0..255.  An output stream is  *)
(* a put position and the bytes written so far, by offset; the model       *)
(* follows the stream from the first seekp of each writer on, the headers  *)
(* written before it lying below the code offset.                          *)
(***************************************************************************)
Platforms == {"WINDOWS_X64", "MACOS_X64", "MACOS_ARM64", "LINUX_X64", "LINUX_ARM64"}

UpperCase == "ABCDEFGHIJKLMNOPQRSTUVWXYZ"

LowerCase == "abcdefghijklmnopqrstuvwxyz"

IndexIn(s, c) == CHOOSE i \in 1..Len(s) : CharAt(s, i) = c

\* the code of the character c, one of those the writers put into an image
CharCode(c) ==
    CASE c = "\n" -> 10
      [] c = " " -> 32
      [] c = "!" -> 33
      [] c = "," -> 44
      [] c = "." -> 46
      [] \E i \in 1..Len(UpperCase) : CharAt(UpperCase, i) = c -> 64 + IndexIn(UpperCase, c)
      [] OTHER -> 96 + IndexIn(LowerCase, c)

\* the bytes of the characters of s
RECURSIVE CharCodes(_, _)
CharCodes(s, i) == IF i > Len(s) THEN <<>> ELSE <<CharCode(CharAt(s, i))>> \o CharCodes(s, i + 1)

\* a char array initialized with the literal s: its characters and the
\* terminating zero, which sizeof counts
CharArray(s) == Append(CharCodes(s, 1), 0)

\* the width low bytes of v, the lowest first
RECURSIVE LittleEndian(_, _)
LittleEndian(v, width) ==
    IF width = 0 THEN <<>> ELSE <<v % 256>> \o LittleEndian(v \div 256, width - 1)

generateX86_64Instruction(instr) ==
    CASE instr.opcode = "MOV" ->
            IF instr.has_immediate THEN <<72, 199, 192>> \o LittleEndian(instr.immediate, 4)
            ELSE <<72, 137, 192>>
      [] instr.opcode = "ADD" ->
            IF instr.has_immediate THEN <<72, 129, 192>> \o LittleEndian(instr.immediate, 4)
            ELSE <<72, 1, 192>>
      [] instr.opcode = "SUB" ->
            IF instr.has_immediate THEN <<72, 129, 232>> \o LittleEndian(instr.immediate, 4)
            ELSE <<72, 41, 192>>
      [] instr.opcode = "CALL" -> <<232, 0, 0, 0, 0>>
      [] instr.opcode = "RET" -> <<195>>
      [] instr.opcode = "PUSH" -> <<80>>
      [] instr.opcode = "POP" -> <<88>>
      [] OTHER -> <<144>>

\* 0xd2800000 | (imm << 5), 0x91000000 | (imm << 10), 0xd1000000 | (imm << 10):
\* the field of the immediate lies below the bits of the opcode word
generateARM64Instruction(instr) ==
    CASE instr.opcode = "MOV" ->
            IF instr.has_immediate
            THEN LET field == LittleEndian((instr.immediate % 65536) * 32, 3)
                 IN  <<field[1], field[2], field[3] + 128, 210>>
            ELSE <<224, 3, 1, 170>>
      [] instr.opcode = "ADD" ->
            IF instr.has_immediate
            THEN LittleEndian((instr.immediate % 4096) * 1024, 3) \o <<145>>
            ELSE <<0, 0, 1, 139>>
      [] instr.opcode = "SUB" ->
            IF instr.has_immediate
            THEN LittleEndian((instr.immediate % 4096) * 1024, 3) \o <<209>>
            ELSE <<0, 0, 1, 203>>
      [] instr.opcode = "CALL" -> <<0, 0, 0, 148>>
      [] instr.opcode = "RET" -> <<192, 3, 95, 214>>
      [] OTHER -> <<31, 32, 3, 213>>

generateInstructionBytes(platform, instr) ==
    IF platform \in {"MACOS_ARM64", "LINUX_ARM64"} THEN generateARM64Instruction(instr)
    ELSE generateX86_64Instruction(instr)

RECURSIVE InstructionBytes(_, _, _)
InstructionBytes(platform, instructions, i) ==
    IF i > Len(instructions) THEN <<>>
    ELSE generateInstructionBytes(platform, instructions[i])
         \o InstructionBytes(platform, instructions, i + 1)

\* the bytes of the instructions of the functions, in order
RECURSIVE generateMachineCode(_, _, _)
generateMachineCode(G, platform, f) ==
    IF f > Len(G.functions) THEN <<>>
    ELSE InstructionBytes(platform, G.functions[f].blocks[1].instructions, 1)
         \o generateMachineCode(G, platform, f + 1)

\* the program each writer puts in when generateMachineCode returns nothing
DefaultCode(platform) ==
    CASE platform = "WINDOWS_X64" ->
            <<72, 199, 193, 0, 0, 0, 0, 72, 184, 0, 0, 0, 0, 0, 0, 0, 0, 255, 208, 195>>
      [] platform = "MACOS_ARM64" -> <<0, 0, 128, 210, 1, 0, 0, 212, 192, 3, 95, 214>>
      [] platform = "MACOS_X64" ->
            <<72, 199, 192, 1, 0, 0, 2, 72, 199, 199, 0, 0, 0, 0, 15, 5, 195>>
      [] platform = "LINUX_ARM64" ->
            <<0, 0, 128, 210, 33, 0, 128, 210, 66, 0, 128, 210, 8, 8, 128, 210,
              1, 0, 0, 212, 0, 0, 128, 210, 168, 11, 128, 210, 1, 0, 0, 212>>
      [] OTHER ->
            <<72, 199, 192, 1, 0, 0, 0, 72, 199, 199, 1, 0, 0, 0, 72, 199, 198, 0, 16, 64, 0,
              72, 199, 194, 38, 0, 0, 0, 15, 5, 72, 199, 192, 60, 0, 0, 0,
              72, 199, 199, 0, 0, 0, 0, 15, 5>>

\* the machine code that goes into the image
MachineCode(G, platform) ==
    With(generateMachineCode(G, platform, 1), LAMBDA machine_code :
        IF machine_code = <<>> THEN DefaultCode(platform) ELSE machine_code)

\* file.seekp(offset) and file.write(data, size) on a stream
seekp(file, offset) == [file EXCEPT !.pos = offset]

write(file, data) ==
    [pos |-> file.pos + Len(data),
     bytes |-> [o \in DOMAIN file.bytes \cup (file.pos .. file.pos + Len(data) - 1) |->
                   IF o >= file.pos /\ o < file.pos + Len(data)
                   THEN data[o - file.pos + 1] ELSE file.bytes[o]]]

\* the offset of the code and the offset of the data in the image of a platform
CodeOffset(platform) ==
    CASE platform = "WINDOWS_X64" -> 1024
      [] platform \in {"MACOS_X64", "MACOS_ARM64"} -> 3920
      [] OTHER -> 4096

DataOffset(platform) ==
    CASE platform = "WINDOWS_X64" -> 1536
      [] OTHER -> 4096

HelloString(platform) ==
    CASE platform = "WINDOWS_X64" -> "Hello, World from GDScript!\n"
      [] platform \in {"MACOS_X64", "MACOS_ARM64"} -> "Hello, World from GDScript on macOS!\n"
      [] OTHER -> "Hello, World from GDScript on Linux!\n"

\* struct SectionHeader64 of generateLinuxExecutable, as it lies in memory
SectionHeader64(sh_name, sh_type, sh_flags, sh_addr, sh_offset, sh_size, sh_addralign) ==
    LittleEndian(sh_name, 4) \o LittleEndian(sh_type, 4) \o LittleEndian(sh_flags, 8)
    \o LittleEndian(sh_addr, 8) \o LittleEndian(sh_offset, 8) \o LittleEndian(sh_size, 8)
    \o LittleEndian(0, 4) \o LittleEndian(0, 4)
    \o LittleEndian(sh_addralign, 8) \o LittleEndian(0, 8)

\* the section headers at 0x2000 and the string table at 0x2100
LinuxSections(file) ==
    write(seekp(write(seekp(file, 8192),
                      SectionHeader64(0, 0, 0, 0, 0, 0, 0)
                      \o SectionHeader64(1, 1, 6, 4198400, 4096, 64, 16)
                      \o SectionHeader64(7, 1, 3, 4202496, 4096, 64, 8)
                      \o SectionHeader64(13, 3, 0, 0, 8448, 35, 1)),
                8448),
          <<0>> \o CharCodes(".text", 1) \o <<0>> \o CharCodes(".data", 1) \o <<0>>
          \o CharCodes(".shstrtab", 1) \o <<0, 0>>)

\* generateWindowsExecutable, generateMacOSExecutable and
\* generateLinuxExecutable from the seekp to the code offset on
ExecutableImage(G, platform) ==
    With(write(seekp([pos |-> 0, bytes |-> << >>], CodeOffset(platform)),
               MachineCode(G, platform)), LAMBDA code :
    With(write(seekp(code, DataOffset(platform)), CharArray(HelloString(platform))),
         LAMBDA data :
        IF platform \in {"LINUX_X64", "LINUX_ARM64"} THEN LinuxSections(data).bytes
        ELSE data.bytes))

getExecutableExtension(platform) ==
    CASE platform = "WINDOWS_X64" -> ".exe"
      [] platform \in {"MACOS_X64", "MACOS_ARM64"} -> ".app"
      [] OTHER -> ""

writeExecutable(G, platform, opens) ==
    IF ~opens
    THEN CodeGenerator_addError(G,
             "Cannot create "
             \o (CASE platform = "WINDOWS_X64" -> "Windows"
                   [] platform \in {"MACOS_X64", "MACOS_ARM64"} -> "macOS"
                   [] OTHER -> "Linux")
             \o " executable: " \o getExecutableExtension(platform))
    ELSE [G EXCEPT !.files = Put(@, "executable", ExecutableImage(G, platform))]

(***************************************************************************)
(* Source texts.  S1 and S3 are the spec's scenarios; LexWords are the     *)
(* pieces from which short sources are assembled.                          *)
(***************************************************************************)
S1 == "if x:\n    y\n    z\n"
S3 == "print(q)\n"

LexScenarios ==
    {S1, S3,
     "a\n  b\n c\n",            \* dedent to a level that was never pushed
     "a\n  b\n    c\nd",        \* two levels closed by one line, no final newline
     "a\n\tb\n  # c\n\n  d\n",  \* tab, comment line and blank line inside a block
     "x = (1 + 2) == y # c\n",
     "s = \"a\\n\nb\" + 'c'\n",
     "@export var v := 1.5e+3\n",
     "f(a, b)[0].c -> d\n"}

LexWords == {"x", "if", "1", " ", "\n", "\n  y", "\n z", "#", "=", "==", "(", "\"", "?", "@"}

RECURSIVE Concats(_, _)
Concats(words, n) ==
    IF n = 0 THEN {""}
    ELSE LET shorter == Concats(words, n - 1)
         IN  shorter \cup {s \o w : s \in shorter, w \in words}

LexSources == LexScenarios \cup Concats(LexWords, MaxWords)

(***************************************************************************)
(* Values of the components a specification does not exercise.             *)
(***************************************************************************)
Idle == [idle |-> TRUE]

(***************************************************************************)
(* SpecLex: Lexer::tokenize, one call of scanToken per step.               *)
(***************************************************************************)
InitLex ==
    /\ lexer \in {Lexer(src) : src \in LexSources}
    /\ lpc = "scan"
    /\ parser = Idle /\ ppc = "idle"
    /\ analyzer = Idle /\ apc = "idle" /\ todo = <<>>
    /\ driver = Idle
    /\ generator = Idle /\ gpc = "idle"

LexScanToken ==
    /\ lpc = "scan"
    /\ ~Lexer_isAtEnd(lexer)
    /\ lexer' = Lexer_scanToken(lexer)
    /\ UNCHANGED <<lpc, parser, ppc, analyzer, apc, todo, driver, generator, gpc>>

LexFinish ==
    /\ lpc = "scan"
    /\ Lexer_isAtEnd(lexer)
    /\ lexer' = Lexer_tokenize_tail(lexer)
    /\ lpc' = "done"
    /\ UNCHANGED <<parser, ppc, analyzer, apc, todo, driver, generator, gpc>>

NextLex == LexScanToken \/ LexFinish

SpecLex == InitLex /\ [][NextLex]_vars

TokenTypes(toks) == [i \in 1..Len(toks) |-> toks[i].type]

(***************************************************************************)
(* SpecParse: a source is tokenized and Parser::parse runs on the stream,   *)
(* one iteration of its top-level loop per step.                           *)
(***************************************************************************)
ParseScenarios ==
    {S1, S3,
     "if x:\n    else\n",                 \* a keyword no statement starts with, in a block
     "class A:\n    var x\n        var y\n", \* an INDENT inside a class body
     "func f(a, b: int = 1) -> void:\n    return a + b * 2\n",
     "class A extends B:\n    var v: Array[int] = [1, 2]\n    func g():\n        pass\n",
     "while i < 3:\n    i += 1\n    if i == 2:\n        break\n    elif i:\n        continue\n",
     "for i in range(3):\n    print(i)\nmatch x:\n    1:\n        pass\n",
     "enum E { A, B = 2 }\nsignal s(a)\nconst c = not -1\n",
     "x := {\"a\": 1}.b[0] if y else func(): z\n",
     "static var n\nstatic x\nclass_name C\nextends D\n@tool func h():\n    return\n"}

ParseWords == {"x", "1", "+", "(", ")", "\n", "else", "var ", "if x:\n  ", "class A:\n  "}

BinaryTexts ==
    {"or", "||", "and", "&&", "==", "!=", "<", "<=", ">", ">=", "in", "+", "-", "*", "/", "%"}

AssignTexts == {"=", ":=", "+=", "-=", "*=", "/=", "%="}

UnaryTexts == {"not ", "!", "-", "+"}

\* expressions over identifiers, each the value of a return statement, which
\* hands it to expression(): two operators, unary operators before the
\* operands, ternaries
ExpressionSources ==
    {"return a " \o op1 \o " b " \o op2 \o " c\n" :
        op1 \in BinaryTexts \cup AssignTexts, op2 \in BinaryTexts \cup AssignTexts}
    \cup {"return " \o u \o "a " \o op \o " " \o v \o "b\n" :
              u \in UnaryTexts \cup {""}, v \in {"", "-", "not "},
              op \in BinaryTexts \cup AssignTexts}
    \cup {"return a " \o o1 \o " b if c " \o o2 \o " d else e " \o o3 \o " f\n" :
              o1 \in {"or", "==", "+"}, o2 \in {"or", "==", "+"}, o3 \in {"or", "==", "+"}}
    \cup {"return a if b else c if d else e\n", "return -a if not b else -c\n",
          "return x = a if b else c\n", "return a if b else c = d\n", "return x = y += a if b else c\n",
          "return - not a\n", "return not - a * b\n", "return a * b / c % d\n", "return a - b + c - d\n",
          "return a and b or c and d\n", "return a < b == c > d\n"}

\* an identifier, tokens whose value is empty (operators, a delimiter, the
\* empty string literal) and the end of a line
SkipWords == {"x", "-", "!", "(", "\"\"", "\n", " + "}

SkipSources == Concats(SkipWords, MaxWords)

ParseSources ==
    ParseScenarios \cup Concats(ParseWords, MaxWords) \cup ExpressionSources \cup SkipSources

InitParse ==
    /\ lexer \in {Lexer(src) : src \in ParseSources}
    /\ lpc = "scan"
    /\ parser = Idle /\ ppc = "idle"
    /\ analyzer = Idle /\ apc = "idle" /\ todo = <<>>
    /\ driver = Idle
    /\ generator = Idle /\ gpc = "idle"

\* Parser parser(tokens): the parser is given the stream tokenize returned
ParseBegin ==
    /\ lpc = "done" /\ ppc = "idle" /\ driver = Idle
    /\ parser' = ParseState(lexer.tokens)
    /\ ppc' = "loop"
    /\ UNCHANGED <<lexer, lpc, analyzer, apc, todo, driver, generator, gpc>>

\* an iteration that runs into the forced advance
ParseForcedAdvance ==
    /\ ppc = "loop" /\ ParseForces(parser)
    /\ parser' = ParseIteration(parser)
    /\ UNCHANGED <<lexer, lpc, ppc, analyzer, apc, todo, driver, generator, gpc>>

\* an iteration that skips a token whose value is empty
ParseSkipEmpty ==
    /\ ppc = "loop" /\ ParseSkips(parser)
    /\ parser' = ParseIteration(parser)
    /\ UNCHANGED <<lexer, lpc, ppc, analyzer, apc, todo, driver, generator, gpc>>

\* an iteration that calls statement(); the call may never return
ParseStatement ==
    /\ ppc = "loop" /\ ~ParseExits(parser) /\ ~ParseForces(parser) /\ ~ParseSkips(parser)
    /\ parser' = ParseIteration(parser)
    /\ ppc' = IF parser'.hung THEN "hung" ELSE "loop"
    /\ UNCHANGED <<lexer, lpc, analyzer, apc, todo, driver, generator, gpc>>

\* the loop ends and parse returns the Program
ParseFinish ==
    /\ ppc = "loop" /\ ParseExits(parser)
    /\ parser' = SkipWhile(parser, {"NEWLINE"})
    /\ ppc' = "done"
    /\ UNCHANGED <<lexer, lpc, analyzer, apc, todo, driver, generator, gpc>>

NextParse ==
    \/ LexScanToken \/ LexFinish \/ ParseBegin
    \/ ParseForcedAdvance \/ ParseSkipEmpty \/ ParseStatement \/ ParseFinish

SpecParse == InitParse /\ [][NextParse]_vars

(***************************************************************************)
(* SpecCompile: main and GDScriptCompiler::compile (main.cpp).  The driver  *)
(* record holds the position of compile (pc), the phase banners written to *)
(* standard output, whether an output file has been written, the value    *)
(* compile returned and the exit code of the process (-1 while it runs).   *)
(***************************************************************************)
Banners ==
    <<"[1/4] Lexical Analysis...", "[2/4] Syntax Analysis...",
      "[3/4] Semantic Analysis...", "[4/4] Code Generation...">>

Driver ==
    [pc |-> "open", format |-> "OBJECT", platform |-> "MACOS_X64", stdout |-> <<>>,
     output_written |-> FALSE, success |-> FALSE, exit_code |-> -1]

\* std::cout << banner
Announce(d, phase, pc) == [d EXCEPT !.stdout = Append(@, Banners[phase]), !.pc = pc]

\* compile returns result and main returns result ? 0 : 1
Return(d, result) ==
    [d EXCEPT !.pc = "exited", !.success = result, !.exit_code = IF result THEN 0 ELSE 1]

\* S5 of the specification: an int scrutinee and a String pattern
S5 == "match 3:\n    \"x\":\n        pass\n"

SemScenarios ==
    {"if 1:\n    pass\n",                    \* a warning and no error
     "var a\nprint(a)\nvar b = a\n",
     "func f(n: int) -> String:\n    return n\nf(1, 2)\nf(\"s\")\nprint(f(true))\n",
     "func g() -> int:\n    return \"s\"\nreturn\nbreak\nvar a = g() + 1\n",
     "class A:\n    var v: Array[int] = [1]\n    signal s\n    func m(p):\n        return p\nvar o: A\n",
     "enum E { A, B = 2 }\nconst c = -E\nvar u: T\nvar u = [c][\"k\"]\n",
     "for i in \"ab\":\n    var t = 1 if i else \"x\"\nwhile 1 < 2:\n    continue\n",
     "match 1:\n    \"s\":\n        var l = func(a): a\n",
     "x = \"unterminated\n",                 \* a lexical error
     "else",                                 \* parse is stuck until it forces an advance
     S5,
     "var d = {\"k\": 1}\nd.k = d[0]\n"}

TypeWords ==
    {"int", "float", "String", "bool", "Array", "Dictionary", "Vector2", "Vector3",
     "Node", "Object", "Variant", "void"}

InitializerWords == {"1", "1.5", "\"s\"", "true", "null", "[]", "{}", "print", "q"}

\* var v: T = e, and the same pair through a return value
TypedSources ==
    {"var v: " \o t \o " = " \o e \o "\n" : t \in TypeWords, e \in InitializerWords}
    \cup {"func f() -> " \o t \o ":\n    return " \o e \o "\n" :
              t \in {"int", "String", "Node"}, e \in InitializerWords}
    \cup {f \o "(" \o e \o ")\n" : f \in {"range", "len", "str"}, e \in InitializerWords}

CompileWords == {"var a\n", "var a = 1\n", "a = \"s\"\n", "print(a)\n", "pass\n", "a +\n"}

MaxLines == 2

\* S4 of the specification with each body on its own indented line, the only
\* layout funcDeclaration accepts
S4 == "class C:\n    func a():\n        return b()\n    func b():\n        return 1\n"

MethodWords ==
    {"    func a():\n        return b()\n",
     "    func b():\n        return 1\n",
     "    func b():\n        return c(a())\n",
     "    func c(p):\n        return a() + p\n"}

MaxMethods == 2

\* class C with up to MaxMethods methods in every order
ClassSources == {"class C:\n" \o body : body \in Concats(MethodWords, MaxMethods) \ {""}}

\* a while, a for or an if with a body that breaks or continues, alone or
\* followed by a break or a continue at the level of the statement
LoopSources ==
    {header \o body \o follower :
        header \in {"while true:\n", "for i in [1]:\n", "if true:\n"},
        body \in {"    break\n", "    continue\n", "    pass\n",
                  "    while true:\n        break\n    continue\n",
                  "    func f():\n        break\n",
                  "    if true:\n        continue\n    else:\n        break\n"},
        follower \in {"", "break\n", "continue\n"}}

\* an undefined q and an undefined z: in a method body and a member
\* variable of a class, in both orders, and in two top-level statements
OrderSources ==
    {"class C:\n    func a():\n        return q\n    var v = z\n",
     "class C:\n    var v = z\n    func a():\n        return q\n",
     "print(q)\nvar v = z\n"}

\* S6 of the specification, compiled with --format assembly
S6 == "func f():\n    return 0\n"

\* the six built-in names of the generator's table
BuiltinNames == {"print", "len", "range", "str", "int", "float"}

\* a function that returns the call of a built-in with one argument
BuiltinCallSource(b, e) == "func f():\n    return " \o b \o "(" \o e \o ")\n"

BuiltinArguments == {"1", "\"s\"", "[1]"}

\* a function whose parameters and operands take every physical register
SixParameterSource == "func f(a, b, c, d, e, g):\n    return 1 + 2\n"

\* a top-level function whose body is the single statement return k
ReturnSource(name, k) == "func " \o name \o "():\n    return " \o k \o "\n"

ReturnNames == {"f", "go"}

ReturnLiterals == {"0", "7", "007", "2147483647", "2147483648"}

\* sources compiled to assembly: a function that returns an integer literal,
\* alone, after a variable, with parameters, or named main; a function nested
\* in a function; a call of a built-in with one argument in a function and at
\* the top level
AssemblySources ==
    {ReturnSource(name, k) : name \in ReturnNames, k \in ReturnLiterals}
    \cup {"var a = 1.5\nfunc g(p, q):\n    return 7\nfunc main():\n    return 3\n",
          SixParameterSource,
          "func f():\n    func g():\n        pass\n"}
    \cup {BuiltinCallSource(b, e) : b \in BuiltinNames, e \in BuiltinArguments}
    \cup {b \o "(1)\n" : b \in BuiltinNames}

MaxArgs == 2

\* count comma-separated items, each the prefix followed by its number if numbered
RECURSIVE Listed(_, _, _)
Listed(prefix, numbered, count) ==
    IF count = 0 THEN ""
    ELSE (IF count > 1 THEN Listed(prefix, numbered, count - 1) \o ", " ELSE "")
         \o prefix \o (IF numbered THEN ToString(count) ELSE "")

\* a top-level function of n parameters called with m arguments
UserCallSource(n, m) ==
    "func f(" \o Listed("p", TRUE, n) \o "):\n    pass\nf(" \o Listed("1", FALSE, m) \o ")\n"

\* a method of n parameters called with m arguments from another method
MethodCallSource(n, m) ==
    "class C:\n    func m(" \o Listed("p", TRUE, n) \o "):\n        pass\n"
        \o "    func a():\n        m(" \o Listed("1", FALSE, m) \o ")\n"

\* a built-in called with m arguments at the top level
BuiltinArityCallSource(b, m) == b \o "(" \o Listed("1", FALSE, m) \o ")\n"

ArityCallSources ==
    {UserCallSource(n, m) : n \in 0..MaxArgs, m \in 0..MaxArgs}
    \cup {MethodCallSource(n, m) : n \in 0..MaxArgs, m \in 0..MaxArgs}
    \cup {BuiltinArityCallSource(b, m) : b \in {"print", "range", "len", "str"},
                                         m \in 0..MaxArgs}

\* a function f whose body is one call with n arguments: of the function g,
\* of the built-in print, or of the member b of its parameter
InnerCallSource(callee, n) ==
    (IF callee = "g" THEN "func g(" \o Listed("p", TRUE, n) \o "):\n    pass\n" ELSE "")
    \o "func f(" \o (IF callee = "a.b" THEN "a" ELSE "") \o "):\n    "
    \o callee \o "(" \o Listed("1", FALSE, n) \o ")\n"

Callees == {"g", "print", "a.b"}

InnerCallSources == {InnerCallSource(callee, n) : callee \in Callees, n \in 0..MaxArgs}

\* loops in the body of a function, with break and continue
FunctionLoopSources ==
    {"func f():\n    " \o header \o body :
        header \in {"while true:\n", "for i in [1]:\n"},
        body \in {"        break\n", "        continue\n",
                  "        if true:\n            break\n        continue\n",
                  "        while true:\n            break\n        continue\n"}}

CompileSources ==
    FunctionLoopSources \cup InnerCallSources \cup ArityCallSources \cup AssemblySources \cup LexScenarios \cup ParseScenarios \cup SemScenarios \cup TypedSources
        \cup Concats(CompileWords, MaxLines) \cup ClassSources \cup LoopSources
        \cup OrderSources

InitCompile ==
    /\ lexer = Idle /\ lpc = "idle"
    /\ parser = Idle /\ ppc = "idle"
    /\ analyzer = Idle /\ apc = "idle" /\ todo = <<>>
    /\ driver = Driver
    /\ generator = Idle /\ gpc = "idle"

\* the source file opens: its text is read and given to the lexer
CompileOpen ==
    /\ driver.pc = "open"
    /\ \E src \in CompileSources, format \in {"OBJECT", "ASSEMBLY"} :
          /\ format = "ASSEMBLY" => src \in AssemblySources
          /\ lexer' = Lexer(src)
          /\ driver' = [Announce(driver, 1, "lex") EXCEPT !.format = format]
    /\ lpc' = "scan"
    /\ UNCHANGED <<parser, ppc, analyzer, apc, todo, generator, gpc>>

\* if (!file.is_open()) return false
CompileOpenFails ==
    /\ driver.pc = "open"
    /\ driver' = Return(driver, FALSE)
    /\ UNCHANGED <<lexer, lpc, parser, ppc, analyzer, apc, todo, generator, gpc>>

\* tokenize has returned: the gate after the lexer, then Parser parser(tokens)
CompileAfterLex ==
    /\ driver.pc = "lex" /\ lpc = "done"
    /\ IF Lexer_hasErrors(lexer)
       THEN /\ driver' = Return(driver, FALSE)
            /\ UNCHANGED <<parser, ppc>>
       ELSE /\ driver' = Announce(driver, 2, "parse")
            /\ parser' = ParseState(lexer.tokens)
            /\ ppc' = "loop"
    /\ UNCHANGED <<lexer, lpc, analyzer, apc, todo, generator, gpc>>

\* a driver that skips the gate after the parser
CompileAfterParse_noGate ==
    /\ driver.pc = "parse" /\ ppc = "done"
    /\ driver' = Announce(driver, 3, "semantic")
    /\ analyzer' = SemanticAnalyzer
    /\ todo' = Program(parser).statements
    /\ apc' = "run"
    /\ UNCHANGED <<lexer, lpc, parser, ppc, generator, gpc>>

\* parse has returned: the gate after the parser, then SemanticAnalyzer analyzer
\* and the call of analyze on the Program
CompileAfterParse ==
    /\ driver.pc = "parse" /\ ppc = "done"
    /\ IF Parser_hasErrors(parser)
       THEN /\ driver' = Return(driver, FALSE)
            /\ UNCHANGED <<analyzer, apc, todo>>
       ELSE /\ driver' = Announce(driver, 3, "semantic")
            /\ analyzer' = SemanticAnalyzer
            /\ todo' = Program(parser).statements
            /\ apc' = "run"
    /\ UNCHANGED <<lexer, lpc, parser, ppc, generator, gpc>>

\* a statement() call that never returns appends an error on every round
\* of its loop; when memory is exhausted std::bad_alloc reaches the catch
\* clause of compile
CompileCatch ==
    /\ driver.pc = "parse" /\ ppc = "hung"
    /\ driver' = Return(driver, FALSE)
    /\ UNCHANGED <<lexer, lpc, parser, ppc, analyzer, apc, todo, generator, gpc>>

\* one round of the loop of analyzeProgram
AnalyzeStatement ==
    /\ apc = "run" /\ todo /= <<>>
    /\ analyzer' = analyzeStatement(analyzer, Head(todo))
    /\ todo' = Tail(todo)
    /\ UNCHANGED <<lexer, lpc, parser, ppc, apc, driver, generator, gpc>>

\* analyzeProgram returns; analyze prints the errors and the warnings
AnalyzeFinish ==
    /\ apc = "run" /\ todo = <<>>
    /\ apc' = "done"
    /\ UNCHANGED <<lexer, lpc, parser, ppc, analyzer, todo, driver, generator, gpc>>

\* the gate after the analyzer, then CodeGenerator generator(platform, format)
\* and the call of generate.  After an undefined read the analyzer's answer
\* is not determined by the program.
CompileAfterSemantic ==
    /\ driver.pc = "semantic" /\ apc = "done"
    /\ \E hasErrors \in IF analyzer.undefined THEN BOOLEAN
                        ELSE {SemanticAnalyzer_hasErrors(analyzer)} :
          IF hasErrors
          THEN /\ driver' = Return(driver, FALSE)
               /\ UNCHANGED <<todo, generator, gpc>>
          ELSE /\ driver' = Announce(driver, 4, "generate")
               /\ generator' = CodeGenerator(analyzer, driver.format)
               /\ todo' = Program(parser).statements
               /\ gpc' = "program"
    /\ UNCHANGED <<lexer, lpc, parser, ppc, analyzer, apc>>

\* one round of the loop of generateProgram
GenerateStatement ==
    /\ gpc = "program" /\ todo /= <<>>
    /\ generator.thrown = "" /\ ~generator.undefined
    /\ generator' = generateStatement(generator, Head(todo))
    /\ todo' = Tail(todo)
    /\ UNCHANGED <<lexer, lpc, parser, ppc, analyzer, apc, driver, gpc>>

\* the end of generateProgram and the test of hasErrors in generate
GenerateMain ==
    /\ gpc = "program" /\ todo = <<>>
    /\ generator.thrown = "" /\ ~generator.undefined
    /\ generator' = generateMain(generator)
    /\ gpc' = IF CodeGenerator_hasErrors(generator') THEN "done" ELSE "optimize"
    /\ UNCHANGED <<lexer, lpc, parser, ppc, analyzer, apc, todo, driver>>

GenerateOptimize ==
    /\ gpc = "optimize"
    /\ generator' = optimizeCode(generator)
    /\ gpc' = "write"
    /\ UNCHANGED <<lexer, lpc, parser, ppc, analyzer, apc, todo, driver>>

\* the switch on output_format at the end of generate; a file opens or not
GenerateWrite ==
    /\ gpc = "write"
    /\ \E assemblyOpens, objectOpens, executableOpens \in BOOLEAN :
          /\ generator.output_format /= "EXECUTABLE" => executableOpens
          /\ generator.output_format = "ASSEMBLY" => objectOpens
          /\ generator' =
                CASE generator.output_format = "ASSEMBLY" ->
                        writeAssembly(generator, assemblyOpens)
                  [] generator.output_format = "OBJECT" ->
                        writeObjectFile(writeAssembly(generator, assemblyOpens),
                                        objectOpens)
                  [] OTHER ->
                        writeExecutable(
                            writeObjectFile(writeAssembly(generator, assemblyOpens),
                                            objectOpens),
                            driver.platform, executableOpens)
    /\ gpc' = "done"
    /\ UNCHANGED <<lexer, lpc, parser, ppc, analyzer, apc, todo, driver>>

\* an exception of the generator (std::stoi) reaches the catch clause of compile
GenerateCatch ==
    /\ gpc = "program" /\ generator.thrown /= ""
    /\ gpc' = "done"
    /\ driver' = Return(driver, FALSE)
    /\ UNCHANGED <<lexer, lpc, parser, ppc, analyzer, apc, todo, generator>>

\* the generator has read through a null current_block: the process is
\* killed, or goes on to any end
GenerateUndefined ==
    /\ gpc = "program" /\ generator.undefined
    /\ gpc' = "done"
    /\ \E code \in {0, 1, 139}, written \in BOOLEAN :
          driver' = [driver EXCEPT !.pc = "exited", !.success = (code = 0),
                                   !.exit_code = code, !.output_written = written]
    /\ UNCHANGED <<lexer, lpc, parser, ppc, analyzer, apc, todo, generator>>

\* generate has returned: the gate after the generator
CompileAfterGenerate ==
    /\ driver.pc = "generate" /\ gpc = "done"
    /\ driver' = Return([driver EXCEPT !.output_written = generator.files /= EmptyMap],
                        ~CodeGenerator_hasErrors(generator))
    /\ UNCHANGED <<lexer, lpc, parser, ppc, analyzer, apc, todo, generator, gpc>>

NextCompile ==
    \/ CompileOpen \/ CompileOpenFails
    \/ LexScanToken \/ LexFinish \/ CompileAfterLex
    \/ ParseForcedAdvance \/ ParseSkipEmpty \/ ParseStatement \/ ParseFinish
    \/ CompileAfterParse \/ CompileCatch
    \/ AnalyzeStatement \/ AnalyzeFinish \/ CompileAfterSemantic
    \/ GenerateStatement \/ GenerateMain \/ GenerateOptimize \/ GenerateWrite
    \/ GenerateCatch \/ GenerateUndefined \/ CompileAfterGenerate

SpecCompile == InitCompile /\ [][NextCompile]_vars

(***************************************************************************)
(* SpecTypes: getBinaryResultType applied to every pair of operand types   *)
(* and every operator token the parser puts into a BinaryOpExpr.           *)
(***************************************************************************)
GDTypes ==
    {TypeInfo(t) : t \in {"VOID", "INT", "FLOAT", "STRING", "BOOL", "ARRAY", "DICTIONARY",
                          "VECTOR2", "VECTOR3", "NODE", "OBJECT", "VARIANT", "LAMBDA",
                          "UNKNOWN"}}
        \cup {CustomType("A")}

ComparisonOps == {"EQUAL", "NOT_EQUAL", "LESS", "LESS_EQUAL", "GREATER", "GREATER_EQUAL"}

LogicalOps == {"AND", "OR", "LOGICAL_AND", "LOGICAL_OR"}

BinaryOps ==
    UNION {LevelOps[l] : l \in DOMAIN LevelOps} \cup AssignOps

InitTypes ==
    /\ analyzer \in [left : GDTypes, operator_type : BinaryOps, right : GDTypes]
    /\ apc = "operands" /\ todo = <<>>
    /\ lexer = Idle /\ lpc = "idle" /\ parser = Idle /\ ppc = "idle" /\ driver = Idle
    /\ generator = Idle /\ gpc = "idle"

\* TypeInfo result_type = getBinaryResultType(left_type, expr->operator_type, right_type)
ApplyBinaryResultType ==
    /\ apc = "operands"
    /\ todo' = <<getBinaryResultType(analyzer.left, analyzer.operator_type, analyzer.right)>>
    /\ apc' = "result"
    /\ UNCHANGED <<lexer, lpc, parser, ppc, analyzer, driver, generator, gpc>>

NextTypes == ApplyBinaryResultType

SpecTypes == InitTypes /\ [][NextTypes]_vars

(***************************************************************************)
(* The scope chain on its own: enterScope, exitScope, defineSymbol and     *)
(* analyzeBlockStmt applied in every order to a fresh analyzer.  todo is   *)
(* the history of the operations: "enter", "exit" or the name defined.     *)
(***************************************************************************)
ScopeNames == {"a", "b"}

MaxScopeOps == 5

InitScopes ==
    /\ analyzer = SemanticAnalyzer /\ apc = "scopes" /\ todo = <<>>
    /\ lexer = Idle /\ lpc = "idle" /\ parser = Idle /\ ppc = "idle" /\ driver = Idle
    /\ generator = Idle /\ gpc = "idle"

ScopeEnter ==
    /\ apc = "scopes" /\ Len(todo) < MaxScopeOps
    /\ analyzer' = enterScope(analyzer)
    /\ todo' = Append(todo, "enter")
    /\ UNCHANGED <<lexer, lpc, parser, ppc, apc, driver, generator, gpc>>

ScopeExit ==
    /\ apc = "scopes" /\ Len(todo) < MaxScopeOps
    /\ analyzer' = exitScope(analyzer)
    /\ todo' = Append(todo, "exit")
    /\ UNCHANGED <<lexer, lpc, parser, ppc, apc, driver, generator, gpc>>

\* current_scope->defineSymbol(symbol)
ScopeDefine ==
    /\ apc = "scopes" /\ Len(todo) < MaxScopeOps
    /\ \E n \in ScopeNames :
          /\ analyzer' = Scope_defineSymbol(analyzer,
                             Symbol(n, TypeInfo("VARIANT"), FALSE, FALSE, 0))
          /\ todo' = Append(todo, n)
    /\ UNCHANGED <<lexer, lpc, parser, ppc, apc, driver, generator, gpc>>

\* analyzeBlockStmt of a block whose one statement is 'var n'
ScopeBlock ==
    /\ apc = "scopes" /\ Len(todo) + 3 <= MaxScopeOps
    /\ \E n \in ScopeNames :
          /\ analyzer' = analyzeBlockStmt(analyzer,
                 MakeNode("BLOCK", [statements |->
                     <<MakeNode("VAR_DECL", [name |-> n, var_type |-> "",
                                             initializer |-> NULL, is_static |-> FALSE,
                                             annotations |-> <<>>])>>]))
          /\ todo' = todo \o <<"enter", n, "exit">>
    /\ UNCHANGED <<lexer, lpc, parser, ppc, apc, driver, generator, gpc>>

NextScopes == ScopeEnter \/ ScopeExit \/ ScopeDefine \/ ScopeBlock

SpecScopes == InitScopes /\ [][NextScopes]_vars


(***************************************************************************)
(* Vocabulary of the lexer claims.                                         *)
(***************************************************************************)
Count(toks, type) == Cardinality({i \in 1..Len(toks) : toks[i].type = type})

IsPrefix(s, t) == Len(s) <= Len(t) /\ SubSeq(t, 1, Len(s)) = s

HasMessage(errs, message) == \E i \in 1..Len(errs) : errs[i].message = message

\* the lexemes of the tokens that are not NEWLINE, INDENT, DEDENT or EOF, concatenated
RECURSIVE Lexemes(_)
Lexemes(toks) ==
    IF toks = <<>> THEN ""
    ELSE (IF Head(toks).type \in {"NEWLINE", "INDENT", "DEDENT", "EOF_TOKEN"}
          THEN "" ELSE Head(toks).value) \o Lexemes(Tail(toks))

\* the text from position i on, with whitespace and comments removed
RECURSIVE Stripped(_, _, _)
Stripped(s, i, inComment) ==
    IF i > Len(s) THEN ""
    ELSE LET c == CharAt(s, i)
         IN  IF c = "\n" THEN Stripped(s, i + 1, FALSE)
             ELSE IF inComment \/ c = "#" THEN Stripped(s, i + 1, TRUE)
             ELSE IF c \in {" ", "\t", "\r"} THEN Stripped(s, i + 1, FALSE)
             ELSE c \o Stripped(s, i + 1, FALSE)

HasChar(s, chars) == \E i \in 1..Len(s) : CharAt(s, i) \in chars

S1Expected ==
    <<"IF", "IDENTIFIER", "COLON", "NEWLINE", "INDENT", "IDENTIFIER", "NEWLINE",
      "IDENTIFIER", "NEWLINE", "DEDENT", "EOF_TOKEN">>

(* C1: lexing 'if x:\n    y\n    z\n' yields exactly IF, IDENTIFIER(x), COLON,
   NEWLINE, INDENT, IDENTIFIER(y), NEWLINE, IDENTIFIER(z), NEWLINE, DEDENT, EOF,
   with no token between the closing DEDENT and EOF.  The code does not do
   this: C1_S1TokenKinds is the claim and is violated. *)
C1_S1TokenKinds ==
    (lpc = "done" /\ lexer.source = S1) =>
        /\ TokenTypes(lexer.tokens) = S1Expected
        /\ lexer.tokens[2].value = "x" /\ lexer.tokens[6].value = "y"
        /\ lexer.tokens[8].value = "z"

\* C1, what tokenize returns for S1: a NEWLINE stands between DEDENT and EOF
C1_S1ExtraNewline ==
    /\ lpc = "done" /\ lexer.source = S1 /\ lexer.errors = <<>>
    /\ TokenTypes(lexer.tokens) =
           SubSeq(S1Expected, 1, 10) \o <<"NEWLINE", "EOF_TOKEN">>

(* C2: for every source, the token stream returned by tokenize holds as many
   INDENT tokens as DEDENT tokens, also when 'Invalid indentation level' was
   reported; while scanning, the INDENTs not yet closed are the levels on the
   indent stack above the initial 0. *)
C2_IndentDedentBalanced ==
    /\ lpc \in {"scan", "done"} =>
          Count(lexer.tokens, "INDENT") - Count(lexer.tokens, "DEDENT")
              = Len(lexer.indent_stack) - 1
    /\ lpc = "done" => Count(lexer.tokens, "INDENT") = Count(lexer.tokens, "DEDENT")

\* C2: a returned stream with an invalid-indentation error and two blocks opened
C2_BalancedDespiteError ==
    /\ lpc = "done"
    /\ HasMessage(lexer.errors, "Invalid indentation level")
    /\ Count(lexer.tokens, "INDENT") = 2
    /\ Count(lexer.tokens, "DEDENT") = 2

(* C3: for every source line the lexemes of its tokens, NEWLINE, INDENT and
   DEDENT excluded, concatenate to the line's text with whitespace and comments
   removed, operators and delimiters included.  Stated over the lines of a
   source taken together, for sources without string literals and without lex
   errors.  The code does not do this: C3_LexemesCoverLine is violated. *)
C3_LexemesCoverLine ==
    (lpc = "done" /\ lexer.errors = <<>> /\ ~HasChar(lexer.source, {"\"", "'"})) =>
        Lexemes(lexer.tokens) = Stripped(lexer.source, 1, FALSE)

\* C3: the operators and delimiters of a line are missing from its lexemes
C3_OperatorLexemesEmpty ==
    /\ lpc = "done" /\ lexer.source = "x = (1 + 2) == y # c\n" /\ lexer.errors = <<>>
    /\ Stripped(lexer.source, 1, FALSE) = "x=(1+2)==y"
    /\ Lexemes(lexer.tokens) = "x12y"
    /\ TokenTypes(lexer.tokens) =
           <<"IDENTIFIER", "ASSIGN", "LEFT_PAREN", "INTEGER", "PLUS", "INTEGER",
             "RIGHT_PAREN", "EQUAL", "IDENTIFIER", "NEWLINE", "EOF_TOKEN">>

(* C4: for every input, tokenize terminates: every scanToken call, failing or
   not, moves forward in the input, and the position never passes the end of
   the input, where the loop ends.  The stream tokenize returns ends in EOF and
   holds exactly one EOF, and the whole input was scanned.  A lex error only
   appends to the error list: no step removes a token or an error. *)
C4_TokenizeDelivers ==
    /\ [](lpc = "done" =>
            /\ Last(lexer.tokens).type = "EOF_TOKEN"
            /\ Count(lexer.tokens, "EOF_TOKEN") = 1
            /\ lexer.current = Len(lexer.source))
    /\ [](lpc = "scan" =>
            /\ Count(lexer.tokens, "EOF_TOKEN") = 0
            /\ lexer.current <= Len(lexer.source))
    /\ [][/\ IsPrefix(lexer.tokens, lexer'.tokens)
          /\ IsPrefix(lexer.errors, lexer'.errors)
          /\ lpc' = "scan" => lexer'.current > lexer.current
          /\ lpc' = "done" => Lexer_isAtEnd(lexer)]_vars

\* C4: a returned stream with an error, and a token scanned after the error
C4_ScanPastError ==
    /\ lpc = "done" /\ lexer.source = "?x"
    /\ Len(lexer.errors) = 1 /\ lexer.errors[1].message = "Unexpected character: ?"
    /\ TokenTypes(lexer.tokens) = <<"IDENTIFIER", "NEWLINE", "EOF_TOKEN">>

(***************************************************************************)
(* Vocabulary of the parser claims.                                        *)
(***************************************************************************)
\* the nodes directly below an AST node (nullptr children included as NULL)
Children(n) ==
    LET t == n.type
        ofParams(ps) == [i \in 1..Len(ps) |-> ps[i].default_value]
    IN  CASE t = "BINARY_OP" -> <<n.left, n.right>>
          [] t = "UNARY_OP" -> <<n.operand>>
          [] t = "TERNARY" -> <<n.condition, n.true_expr, n.false_expr>>
          [] t = "CALL" -> <<n.callee>> \o n.arguments
          [] t = "MEMBER_ACCESS" -> <<n.object>>
          [] t = "ARRAY_ACCESS" -> <<n.array, n.index>>
          [] t = "ARRAY_LITERAL" -> n.elements
          [] t = "DICT_LITERAL" ->
                [i \in 1..(2 * Len(n.pairs)) |-> n.pairs[(i + 1) \div 2][2 - (i % 2)]]
          [] t = "LAMBDA" -> ofParams(n.parameters) \o <<n.body>>
          [] t = "EXPRESSION_STMT" -> <<n.expression>>
          [] t \in {"BLOCK", "PROGRAM"} -> n.statements
          [] t = "IF_STMT" -> <<n.condition, n.then_branch, n.else_branch>>
          [] t = "WHILE_STMT" -> <<n.condition, n.body>>
          [] t = "FOR_STMT" -> <<n.iterable, n.body>>
          [] t = "MATCH_STMT" ->
                <<n.expression>> \o
                [i \in 1..(2 * Len(n.cases)) |->
                    IF i % 2 = 1 THEN n.cases[(i + 1) \div 2].pattern
                    ELSE n.cases[i \div 2].body]
          [] t = "RETURN_STMT" -> <<n.value>>
          [] t = "VAR_DECL" -> <<n.initializer>>
          [] t = "CONST_DECL" -> <<n.value>>
          [] t = "FUNC_DECL" -> ofParams(n.parameters) \o <<n.body>>
          [] t = "CLASS_DECL" -> n.members
          [] t = "SIGNAL_DECL" -> ofParams(n.parameters)
          [] t = "ENUM_DECL" -> [i \in 1..Len(n.values) |-> n.values[i].value]
          [] OTHER -> <<>>

\* the nodes of the tree n, parents first
RECURSIVE Nodes(_), NodesOfAll(_)
Nodes(n) == IF IsNull(n) THEN <<>> ELSE <<n>> \o NodesOfAll(Children(n))

NodesOfAll(ns) == IF Len(ns) = 0 THEN <<>> ELSE Nodes(Head(ns)) \o NodesOfAll(Tail(ns))

TokenLines(toks) == {toks[i].line : i \in 1..Len(toks)}

(* C7: Parser::parse terminates for every token stream that ends in EOF: at
   top level, inside an indented block and inside a class body, an iteration
   whose statement consumes no token is followed by progress.  The code does
   not do this: C7_ParseNeverHangs says that parse never enters a loop
   iteration that repeats for ever, and is violated. *)
C7_ParseNeverHangs == ppc /= "hung"

\* C7: inside the block of 'if x:', the loop of blockStatement stays at 'else'
C7_HungAtElseInBlock ==
    /\ ppc = "hung" /\ lexer.source = "if x:\n    else\n"
    /\ parser.tokens[parser.current + 1].type = "ELSE"
    /\ parser.tokens[parser.current].type = "INDENT"
    /\ parser.errors = <<"Expected expression">>

(* C8: every AST node built by the parser has line >= 1, the line of a token
   of the stream.  The code does not do this: C8_NodeLinesAreTokenLines is the
   claim, over the statements parsed so far, and is violated. *)
C8_NodeLinesAreTokenLines ==
    ppc \in {"loop", "done"} =>
        LET built == NodesOfAll(parser.statements)
        IN  \A i \in 1..Len(built) :
                built[i].line >= 1 /\ built[i].line \in TokenLines(parser.tokens)

\* C8: 'print(q)' is parsed without errors into nodes whose line is 0, all of them
C8_EveryLineIsZero ==
    /\ ppc = "done" /\ lexer.source = S3 /\ parser.errors = <<>>
    /\ Len(parser.statements) = 1
    /\ parser.statements[1].expression.arguments[1].name = "q"
    /\ LET built == Nodes(parser.statements[1])
       IN  Len(built) = 4 /\ \A i \in 1..4 : built[i].line = 0 /\ built[i].column = 0
    /\ TokenLines(parser.tokens) = {1, 2}

Contains(s, sub) == \E i \in 1..(Len(s) - Len(sub) + 1) : SubSeq(s, i, i + Len(sub) - 1) = sub

AnyContains(messages, sub) == \E i \in 1..Len(messages) : Contains(messages[i], sub)

\* the phases compile has announced so far
Phases == Len(driver.stdout)

(* C5: compile runs the phases in the order lex, parse, semantic analysis,
   code generation; a phase starts only when every earlier phase has ended
   without errors; an output file is written only in code generation; and
   when the lexer, the parser or the analyzer has errors, no later phase
   runs, nothing is written, and a compile that has returned has returned
   false with exit code 1. *)
C5_PhasesGated ==
    /\ driver.stdout = SubSeq(Banners, 1, Phases)
    /\ Phases >= 2 => lpc = "done" /\ lexer.errors = <<>>
    /\ Phases >= 3 => ppc = "done" /\ parser.errors = <<>>
    /\ Phases >= 4 => apc = "done" /\ (analyzer.errors = <<>> \/ analyzer.undefined)
    /\ driver.output_written => Phases = 4
    /\ (Phases = 1 /\ lpc = "done" /\ lexer.errors /= <<>>)
          \/ (Phases = 2 /\ parser.errors /= <<>>)
          \/ (Phases = 3 /\ apc = "done" /\ analyzer.errors /= <<>> /\ ~analyzer.undefined)
          => /\ ~driver.output_written
             /\ driver.pc = "exited" => ~driver.success /\ driver.exit_code = 1
    /\ (driver.pc = "exited" /\ ~(generator /= Idle /\ generator.undefined)) =>
          driver.exit_code = IF driver.success THEN 0 ELSE 1

\* C5: compile has returned false after a parse with errors, the analyzer never ran
C5_StoppedAfterParse ==
    /\ driver.pc = "exited" /\ driver.exit_code = 1 /\ Phases = 2
    /\ ppc = "done" /\ parser.errors /= <<>> /\ apc = "idle" /\ ~driver.output_written

(* C6: warnings do not block the pipeline: hasErrors of the analyzer is false
   whenever its error list is empty, whatever its warning list holds, and a
   compile whose analysis ended with warnings and no errors goes on to code
   generation. *)
C6_WarningsDoNotBlock ==
    (apc = "done" /\ analyzer.errors = <<>> /\ ~analyzer.undefined) =>
        /\ ~SemanticAnalyzer_hasErrors(analyzer)
        /\ driver.pc \in {"generate", "exited"} => Phases = 4

\* C6: code generation has begun after an analysis that recorded a warning
C6_GeneratingWithWarning ==
    /\ driver.pc = "generate" /\ Phases = 4
    /\ analyzer.errors = <<>>
    /\ AnyContains(analyzer.warnings, "Condition should be boolean, got int")

(* C9: for 'print(q)\n' lexing and parsing report no errors, semantic
   analysis reports an error that contains "Undefined variable 'q'" and
   names line 1, and the driver exits with code 1 without running code
   generation.  The error names no line: C9_UndefinedQAtLine1 is the claim
   and is violated. *)
C9_UndefinedQAtLine1 ==
    (driver.pc = "exited" /\ lpc = "done" /\ lexer.source = S3) =>
        /\ lexer.errors = <<>> /\ parser.errors = <<>>
        /\ \E i \in 1..Len(analyzer.errors) :
              /\ Contains(analyzer.errors[i], "Undefined variable 'q'")
              /\ Contains(analyzer.errors[i], "line 1")
        /\ driver.exit_code = 1 /\ Phases = 3

\* C9, what the driver does for S3: the one error carries no line
C9_UndefinedQWithoutLine ==
    /\ driver.pc = "exited" /\ lpc = "done" /\ lexer.source = S3
    /\ lexer.errors = <<>> /\ parser.errors = <<>>
    /\ analyzer.errors = <<"Semantic Error: Undefined variable 'q'">>
    /\ driver.exit_code = 1 /\ Phases = 3

\* the rule of the claim C10 for a target type t and a source type s
ClaimedCompatible(t, s) ==
    \/ TypeInfo_equals(t, s)
    \/ t.base_type = "VARIANT" \/ s.base_type = "VARIANT"
    \/ TypeInfo_isNumeric(t) /\ TypeInfo_isNumeric(s)
    \/ t.base_type = "STRING"
    \/ {t.base_type, s.base_type} = {"NODE", "OBJECT"}

\* the checked pair of a program that is one typed declaration, one function
\* whose body is one return, or one call of range, len or str with one argument
CheckedPair(A, st) ==
    CASE st.type = "VAR_DECL" ->
            [target |-> getBuiltinType(A, st.var_type),
             source |-> getExpressionType(A.scopes, st.initializer),
             message |-> "Type mismatch: cannot assign"]
      [] st.type = "FUNC_DECL" ->
            [target |-> getBuiltinType(A, st.return_type),
             source |-> getExpressionType(A.scopes, st.body.statements[1].value),
             message |-> "Return type mismatch"]
      [] OTHER ->
            [target |-> BuiltinFunctions[st.expression.callee.name].parameter_types[1],
             source |-> getExpressionType(A.scopes, st.expression.arguments[1]),
             message |-> "Argument 1 type mismatch"]

IsTypedSource == lpc = "done" /\ lexer.source \in TypedSources

(* C10: the compatibility check of a typed initializer, of an argument of a
   non-variadic call and of a return value accepts (target, source) exactly
   when the types are equal, either is variant, both are numeric, the target
   is string, or the pair is {node, object}, and otherwise reports a type
   mismatch.  The code accepts any target when the source is string and
   rejects a string target: C10_AcceptsAsClaimed is the claim and is violated. *)
C10_AcceptsAsClaimed ==
    (IsTypedSource /\ apc = "done") =>
        LET pair == CheckedPair(analyzer, parser.statements[1])
        IN  ClaimedCompatible(pair.target, pair.source)
                <=> ~AnyContains(analyzer.errors, pair.message)

\* C10, what the analyzer does: an int initializer of a String variable is rejected
C10_IntToStringRejected ==
    /\ apc = "done" /\ lpc = "done" /\ lexer.source = "var v: String = 1\n"
    /\ analyzer.errors = <<"Semantic Error: Type mismatch: cannot assign int to String">>

(* C11: getBinaryResultType returns bool for each of ==, !=, <, <=, >, >=
   when both operands are numeric, both are strings or at least one is
   variant, and returns bool for and, or, && and || whatever the operand
   types.  The code returns variant as soon as one operand is variant:
   C11_ComparisonAndLogicYieldBool is the claim and is violated. *)
C11_ComparisonAndLogicYieldBool ==
    apc = "result" =>
        LET l == analyzer.left
            r == analyzer.right
        IN  /\ (analyzer.operator_type \in ComparisonOps
                /\ \/ TypeInfo_isNumeric(l) /\ TypeInfo_isNumeric(r)
                   \/ l.base_type = "STRING" /\ r.base_type = "STRING"
                   \/ l.base_type = "VARIANT" \/ r.base_type = "VARIANT")
                  => todo[1] = TypeInfo("BOOL")
            /\ analyzer.operator_type \in LogicalOps => todo[1] = TypeInfo("BOOL")

\* C11, what the code returns for variant == int: variant
C11_VariantComparisonYieldsVariant ==
    /\ apc = "result"
    /\ analyzer = [left |-> TypeInfo("VARIANT"), operator_type |-> "EQUAL",
                   right |-> TypeInfo("INT")]
    /\ todo = <<TypeInfo("VARIANT")>>

\* the names of the methods declared in a class declaration
MethodNames(decl) ==
    {decl.members[i].name : i \in {j \in 1..Len(decl.members) :
                                       decl.members[j].type = "FUNC_DECL"}}

(* C12: in a class body a method may call a method of the same class that is
   declared after it: the analysis of a class reports no undefined name for
   a method the class declares, and the methods of its class-table entry
   are exactly the declared method names. *)
C12_MethodsSeeEachOther ==
    (lpc = "done" /\ lexer.source \in ClassSources /\ apc = "done") =>
        LET decl == parser.statements[1]
        IN  /\ \A n \in MethodNames(decl) :
                  ~AnyContains(analyzer.errors, "Undefined variable '" \o n \o "'")
            /\ decl.name \in DOMAIN analyzer.classes
            /\ DOMAIN analyzer.classes[decl.name].methods = MethodNames(decl)

\* C12: S4 is analyzed without any error, a calling b declared after it
C12_ForwardCallAccepted ==
    /\ lpc = "done" /\ lexer.source = S4 /\ apc = "done"
    /\ analyzer.errors = <<>>
    /\ DOMAIN analyzer.classes["C"].methods = {"a", "b"}

(* C13: for S5 (match 3 with the single pattern "x" and body pass) semantic
   analysis records the warning text "Pattern type string may not match
   expression type int" and no error, and compile goes on to code
   generation.  The type name the analyzer prints is "String":
   C13_WarnsPatternTypeString is the claim and is violated. *)
C13_WarnsPatternTypeString ==
    (lpc = "done" /\ lexer.source = S5 /\ apc = "done") =>
        /\ AnyContains(analyzer.warnings,
                       "Pattern type string may not match expression type int")
        /\ analyzer.errors = <<>>
        /\ driver.pc = "exited" => Phases = 4

\* C13, what the analyzer records for S5: one warning that names the type String
C13_WarnsPatternTypeCapitalString ==
    /\ lpc = "done" /\ lexer.source = S5 /\ apc = "done"
    /\ analyzer.warnings =
          <<"Warning: Pattern type String may not match expression type int">>
    /\ analyzer.errors = <<>>
    /\ driver.pc = "exited" /\ Phases = 4

\* the number of scopes below the current one after a history of scope operations
RECURSIVE ScopeDepth(_)
ScopeDepth(history) ==
    IF history = <<>> THEN 0
    ELSE LET d == ScopeDepth(Front(history))
         IN  CASE Last(history) = "enter" -> d + 1
               [] Last(history) = "exit" -> IF d > 0 THEN d - 1 ELSE 0
               [] OTHER -> d

\* name was defined in a scope that has not been exited since: the current
\* scope or one of its ancestors
DefinedInChain(history, name) ==
    \E i \in 1..Len(history) :
        /\ history[i] = name
        /\ \A j \in i..Len(history) :
              ScopeDepth(SubSeq(history, 1, j)) >= ScopeDepth(SubSeq(history, 1, i))

(* C14: at every point a lookup from the current scope finds a symbol
   exactly when the symbol was defined in the current scope or in one of
   its ancestors: a symbol is visible in every scope nested in the scope of
   its definition, and after exitScope a symbol defined only in the exited
   scope is no longer found. *)
C14_FoundIffDefinedInChain ==
    apc = "scopes" =>
        /\ Len(analyzer.scopes) = ScopeDepth(todo) + 1
        /\ \A n \in ScopeNames :
              Scope_findSymbol(analyzer.scopes, n) /= nullptr <=> DefinedInChain(todo, n)

\* C14: a is found from a scope nested in the scope that defines it, and b,
\* defined in a scope that has been exited, is not found
C14_OuterFoundExitedNotFound ==
    /\ apc = "scopes" /\ todo = <<"a", "enter", "b", "exit", "enter">>
    /\ Scope_findSymbol(analyzer.scopes, "a") /= nullptr
    /\ Scope_findSymbol(analyzer.scopes, "b") = nullptr

\* the break and continue statements of the tree n that are in no loop body,
\* inside telling whether n itself is in one
RECURSIVE LooseBreaks(_, _), LooseBreaksOfAll(_, _)
LooseBreaks(n, inside) ==
    CASE IsNull(n) -> 0
      [] n.type \in {"BREAK_STMT", "CONTINUE_STMT"} -> IF inside THEN 0 ELSE 1
      [] OTHER -> LooseBreaksOfAll(Children(n),
                                   inside \/ n.type \in {"WHILE_STMT", "FOR_STMT"})

LooseBreaksOfAll(ns, inside) ==
    IF Len(ns) = 0 THEN 0
    ELSE LooseBreaks(Head(ns), inside) + LooseBreaksOfAll(Tail(ns), inside)

BreakErrors(errors) ==
    Cardinality({i \in 1..Len(errors) :
                    Contains(errors[i], "Break/continue statement outside of loop")})

(* C15: a break or continue statement produces the error 'Break/continue
   statement outside of loop' exactly when it is in the body of no while or
   for statement: after each statement of the program the analyzer holds
   one such error for each such statement analyzed so far; and in_loop has
   after a while or for statement the value it had before it, which at the
   top level is false. *)
C15_BreakOutsideLoopRejected ==
    (apc \in {"run", "done"} /\ ~analyzer.undefined) =>
        /\ ~analyzer.in_loop
        /\ BreakErrors(analyzer.errors)
              = LooseBreaksOfAll(SubSeq(parser.statements, 1,
                                        IF apc = "run"
                                        THEN Len(parser.statements) - Len(todo)
                                        ELSE Len(parser.statements)), FALSE)

\* C15: a break in a while body is accepted and the break after the loop is rejected
C15_BreakAfterLoopRejected ==
    /\ lpc = "done" /\ lexer.source = "while true:\n    break\nbreak\n"
    /\ apc = "done"
    /\ analyzer.errors = <<"Semantic Error: Break/continue statement outside of loop">>

\* the position of the first occurrence of sub in s
PositionOf(s, sub) ==
    CHOOSE i \in 1..Len(s) :
        /\ SubSeq(s, i, i + Len(sub) - 1) = sub
        /\ \A j \in 1..(i - 1) : SubSeq(s, j, j + Len(sub) - 1) /= sub

(* C16: the errors of the semantic phase are appended in source order: when
   one error precedes another in the analyzer's list, the construct that
   caused it does not come later in the source, also in a class body whose
   method body has an error and is followed by a member variable with an
   error.  Stated for the sources of OrderSources, where each error quotes
   the undefined name that caused it.  The class analysis reports the
   member variable first: C16_ErrorsInSourceOrder is the claim and is
   violated. *)
C16_ErrorsInSourceOrder ==
    (lpc = "done" /\ lexer.source \in OrderSources /\ apc = "done") =>
        \A i, j \in 1..Len(analyzer.errors) : \A n, m \in {"q", "z"} :
            (i < j /\ Contains(analyzer.errors[i], "'" \o n \o "'")
                   /\ Contains(analyzer.errors[j], "'" \o m \o "'"))
                => PositionOf(lexer.source, n) <= PositionOf(lexer.source, m)

\* C16, what the analyzer does: the error of the member variable, which is
\* later in the source, precedes the error of the method body
C16_MemberErrorBeforeMethodError ==
    /\ lpc = "done" /\ apc = "done"
    /\ lexer.source = "class C:\n    func a():\n        return q\n    var v = z\n"
    /\ PositionOf(lexer.source, "q") < PositionOf(lexer.source, "z")
    /\ analyzer.errors = <<"Semantic Error: Undefined variable 'z'",
                           "Semantic Error: Undefined variable 'q'">>

\* the decimal digits of an integer literal without its leading zeros
RECURSIVE StripZeros(_)
StripZeros(digits) ==
    IF Len(digits) > 1 /\ Head(digits) = "0" THEN StripZeros(Tail(digits)) ELSE digits

\* the lines of the assembly file hold name: and then exactly mov #k and ret
FunctionIsMovRet(lines, name, k) ==
    \E i \in 1..Len(lines) :
        /\ lines[i] = name \o ":"
        /\ i + 3 <= Len(lines)
        /\ \E j \in DOMAIN generator.registers :
              lines[i + 1] = "    mov " \o generator.registers[j].name \o ", #" \o StripZeros(k)
        /\ lines[i + 2] = "    ret"
        /\ lines[i + 3] = ""

\* the run has ended and the assembly file could be opened
AssemblyRunOf(src) ==
    /\ driver.pc = "exited" /\ lpc = "done" /\ lexer.source = src
    /\ generator = Idle
        \/ \A e \in DOMAIN generator.errors :
              generator.errors[e] /= "Code Generation Error: Cannot open output file: .s"

(* C17: for a top-level function whose body is the single statement
   return k, k an integer literal, the assembly output contains the line
   name: followed by a mov of the immediate k and then a ret, and no other
   instruction of the function follows the ret. *)
C17_ReturnLiteralIsMovRet ==
    \A name \in ReturnNames, k \in ReturnLiterals :
        AssemblyRunOf(ReturnSource(name, k)) =>
            /\ ".s" \in DOMAIN generator.files
            /\ FunctionIsMovRet(generator.files[".s"], name, k)

\* C17, what happens for S6: f: is followed by mov r0, #0 and ret
C17_S6IsMovZeroRet ==
    /\ AssemblyRunOf(S6) /\ driver.format = "ASSEMBLY" /\ driver.exit_code = 0
    /\ generator.files[".s"] =
          <<".section .text", ".global _start", "",
            "f:", "    mov r0, #0", "    ret", "",
            "main:", "    mov r0, #0", "    ret", "">>

\* C17, what happens for a literal above INT_MAX: std::stoi throws, the
\* compiler reports the exception and writes no assembly
C17_LiteralAboveIntMaxThrows ==
    /\ AssemblyRunOf(ReturnSource("f", "2147483648"))
    /\ generator /= Idle /\ generator.thrown = "stoi"
    /\ generator.files = EmptyMap
    /\ ~driver.success /\ driver.exit_code = 1 /\ ~driver.output_written

\* the arguments of BuiltinArguments that the declared parameter type of the
\* built-in accepts: range takes an int, the others take any value
CompatibleArguments(b) ==
    IF b = "range" THEN {"1"} ELSE BuiltinArguments

\* function name of the generator holds a CALL of the runtime symbol of b
CallsBuiltin(G, name, b) ==
    \E f \in DOMAIN G.functions :
        /\ G.functions[f].name = name
        /\ \E k \in DOMAIN G.functions[f].blocks[1].instructions :
              G.functions[f].blocks[1].instructions[k] =
                  InstructionLabel("CALL", "_builtin_" \o b)

(* C18: each of the six built-in functions print, len, range, str, int and
   float can be called from a program: a call with one argument of a
   compatible type passes semantic analysis without error and is lowered to
   a CALL of the runtime symbol _builtin_<name>. *)
C18_BuiltinCallAnalyzedAndLowered ==
    \A b \in BuiltinNames :
        \A e \in CompatibleArguments(b) :
            (lpc = "done" /\ lexer.source = BuiltinCallSource(b, e)) =>
                /\ apc = "done" => analyzer.errors = <<>>
                /\ driver.pc = "exited" =>
                      generator /= Idle /\ CallsBuiltin(generator, "f", b)

\* C18, what happens for int: the analyzer knows no symbol of that name, the
\* call is an error of the analysis and no code is generated
C18_IntIsUndefinedVariable ==
    /\ lpc = "done" /\ lexer.source = BuiltinCallSource("int", "1")
    /\ apc = "done"
    /\ analyzer.errors = <<"Semantic Error: Undefined variable 'int'">>
    /\ driver.pc = "exited" /\ Phases = 3 /\ ~driver.success
    /\ generator = Idle

\* C18, what happens for str: the call is mov, push, call _builtin_str, pop
C18_StrIsLowered ==
    /\ lpc = "done" /\ lexer.source = BuiltinCallSource("str", "1")
    /\ apc = "done" /\ analyzer.errors = <<>>
    /\ driver.pc = "exited" /\ driver.success
    /\ generator /= Idle /\ CallsBuiltin(generator, "f", "str")

\* the analysis of src has ended
AnalyzedRunOf(src) == lpc = "done" /\ lexer.source = src /\ apc = "done"

\* what a call of name, declared with n parameters, with m arguments records
ArityErrors(name, n, m) ==
    IF n = m THEN <<>>
    ELSE <<"Semantic Error: Function '" \o name \o "' expects " \o ToString(n)
           \o " arguments, got " \o ToString(m)>>

(* C19: a call through an identifier that resolves to a non-variadic
   function (a user-defined function, a class method, the built-ins range,
   len and str) with a number of arguments different from the number of
   declared parameters produces an argument-count error; print, which is
   variadic, accepts any number of arguments; a user-defined function is
   never treated as variadic. *)
C19_ArgumentCountChecked ==
    /\ \A n \in 0..MaxArgs, m \in 0..MaxArgs :
          /\ AnalyzedRunOf(UserCallSource(n, m)) =>
                /\ analyzer.errors = ArityErrors("f", n, m)
                /\ ~analyzer.scopes[1].functions["f"].is_variadic
          /\ AnalyzedRunOf(MethodCallSource(n, m)) =>
                /\ analyzer.errors = ArityErrors("m", n, m)
                /\ ~analyzer.classes["C"].methods["m"].is_variadic
    /\ \A m \in 0..MaxArgs :
          /\ \A b \in {"range", "len", "str"} :
                AnalyzedRunOf(BuiltinArityCallSource(b, m)) =>
                    analyzer.errors = ArityErrors(b, 1, m)
          /\ AnalyzedRunOf(BuiltinArityCallSource("print", m)) => analyzer.errors = <<>>

\* C19: f(p1) called with two arguments is rejected and compilation stops
\* after the analysis
C19_TwoArgumentsForOneParameter ==
    /\ AnalyzedRunOf(UserCallSource(1, 2))
    /\ analyzer.errors = <<"Semantic Error: Function 'f' expects 1 arguments, got 2">>
    /\ driver.pc = "exited" /\ ~driver.success /\ Phases = 3

\* the tokens of the value of a one-line return statement: the stream
\* without RETURN, NEWLINE and EOF
ExprTokens(toks) ==
    SelectSeq(toks, LAMBDA t : t.type \notin {"RETURN", "NEWLINE", "EOF_TOKEN"})

\* the binding strength the grammar gives a binary operator: 1 binds loosest
Precedence(type) ==
    CASE type \in {"OR", "LOGICAL_OR"} -> 1
      [] type \in {"AND", "LOGICAL_AND"} -> 2
      [] type \in {"EQUAL", "NOT_EQUAL"} -> 3
      [] type \in {"LESS", "LESS_EQUAL", "GREATER", "GREATER_EQUAL", "IN"} -> 4
      [] type \in {"PLUS", "MINUS"} -> 5
      [] type \in {"MULTIPLY", "DIVIDE", "MODULO"} -> 6
      [] OTHER -> 0

\* positions of toks that hold a token of one of types
PositionsOf(toks, types) == {i \in 1..Len(toks) : toks[i].type \in types}

\* positions of the binary operators of a level: an operator that follows an
\* operand
BinaryPositions(toks, level) ==
    {i \in 2..Len(toks) : Precedence(toks[i].type) = level
                           /\ toks[i - 1].type = "IDENTIFIER"}

SetMin(S) == CHOOSE x \in S : \A y \in S : x <= y

SetMax(S) == CHOOSE x \in S : \A y \in S : x >= y

\* the tree the grammar prescribes, found by splitting the tokens at the
\* operator that binds loosest: the last one of a left-associative level,
\* the first assignment operator, the first if of a ternary
RECURSIVE GrammarBinary(_, _), GrammarTernary(_), GrammarTree(_)
GrammarBinary(toks, level) ==
    CASE level = 7 /\ Len(toks) = 1 -> MakeNode("IDENTIFIER", [name |-> toks[1].value])
      [] level = 7 /\ Len(toks) /= 1 ->
            MakeNode("UNARY_OP", [operator_type |-> toks[1].type,
                                  operand |-> GrammarBinary(Tail(toks), 7)])
      [] level < 7 /\ BinaryPositions(toks, level) = {} -> GrammarBinary(toks, level + 1)
      [] OTHER ->
            LET i == SetMax(BinaryPositions(toks, level))
            IN  MakeNode("BINARY_OP",
                    [left |-> GrammarBinary(SubSeq(toks, 1, i - 1), level),
                     operator_type |-> toks[i].type,
                     right |-> GrammarBinary(SubSeq(toks, i + 1, Len(toks)), level + 1)])

GrammarTernary(toks) ==
    IF PositionsOf(toks, {"IF"}) = {} THEN GrammarBinary(toks, 1)
    ELSE LET i == SetMin(PositionsOf(toks, {"IF"}))
             j == SetMin({e \in PositionsOf(toks, {"ELSE"}) : e > i})
         IN  MakeNode("TERNARY",
                 [condition |-> GrammarBinary(SubSeq(toks, i + 1, j - 1), 1),
                  true_expr |-> GrammarBinary(SubSeq(toks, 1, i - 1), 1),
                  false_expr |-> GrammarTernary(SubSeq(toks, j + 1, Len(toks)))])

GrammarTree(toks) ==
    IF PositionsOf(toks, AssignOps) = {} THEN GrammarTernary(toks)
    ELSE LET i == SetMin(PositionsOf(toks, AssignOps))
         IN  MakeNode("BINARY_OP",
                 [left |-> GrammarTernary(SubSeq(toks, 1, i - 1)),
                  operator_type |-> toks[i].type,
                  right |-> GrammarTree(SubSeq(toks, i + 1, Len(toks)))])

(* C20: Parser::expression builds the tree prescribed by the precedence
   grammar: unary binds tighter than * / %, which bind tighter than + -,
   then the comparisons < <= > >= in, then == !=, then and/&&, then or/||,
   then the ternary, then assignment; operators of one level associate to
   the left, assignment associates to the right, and 'a if c else b' yields a
   ternary node with condition c, true-branch a and false-branch b. *)
C20_ExpressionFollowsPrecedence ==
    (ppc = "done" /\ lexer.source \in ExpressionSources) =>
        /\ parser.errors = <<>>
        /\ parser.statements =
              <<MakeNode("RETURN_STMT",
                         [value |-> GrammarTree(ExprTokens(lexer.tokens))])>>

\* C20: a or b if c == d else e + f is the ternary of the condition c == d
\* with the branches a or b and e + f
C20_TernaryOfThreeLevels ==
    /\ ppc = "done" /\ lexer.source = "return a or b if c == d else e + f\n"
    /\ parser.statements =
          <<MakeNode("RETURN_STMT", [value |->
              MakeNode("TERNARY",
                  [condition |-> MakeNode("BINARY_OP",
                       [left |-> MakeNode("IDENTIFIER", [name |-> "c"]),
                        operator_type |-> "EQUAL",
                        right |-> MakeNode("IDENTIFIER", [name |-> "d"])]),
                   true_expr |-> MakeNode("BINARY_OP",
                       [left |-> MakeNode("IDENTIFIER", [name |-> "a"]),
                        operator_type |-> "OR",
                        right |-> MakeNode("IDENTIFIER", [name |-> "b"])]),
                   false_expr |-> MakeNode("BINARY_OP",
                       [left |-> MakeNode("IDENTIFIER", [name |-> "e"]),
                        operator_type |-> "PLUS",
                        right |-> MakeNode("IDENTIFIER", [name |-> "f"])])])])>>

\* the number of newline characters among the first n characters of s
RECURSIVE NewlinesIn(_, _)
NewlinesIn(s, n) ==
    IF n = 0 THEN 0
    ELSE NewlinesIn(s, n - 1) + (IF CharAt(s, n) = "\n" THEN 1 ELSE 0)

\* the number of characters consumed after the last newline consumed
RECURSIVE SinceNewline(_, _)
SinceNewline(s, n) ==
    IF n = 0 \/ CharAt(s, n) = "\n" THEN 0 ELSE SinceNewline(s, n - 1) + 1

(* C21: at every point of lexing the line counter equals 1 plus the number
   of newline characters consumed so far, newlines inside string literals
   included, and the column counter is reset to 1 by each newline and
   advanced by every other character. *)
C21_LineCountsNewlines ==
    lpc \in {"scan", "done"} =>
        /\ lexer.line = 1 + NewlinesIn(lexer.source, lexer.current)
        /\ lexer.column = 1 + SinceNewline(lexer.source, lexer.current)

\* C21, what happens for a string literal that holds a newline: the newline
\* is counted by scanString and again by advance, the lexer is on line 3 of
\* a text of two lines
C21_NewlineInStringCountedTwice ==
    /\ lpc = "done" /\ lexer.source = "\"\n\""
    /\ lexer.current = 3 /\ NewlinesIn(lexer.source, lexer.current) = 1
    /\ lexer.line = 3

\* generateProgram has ended without an exception
GeneratedProgram ==
    /\ generator /= Idle /\ gpc \in {"optimize", "write", "done"}
    /\ generator.thrown = ""

\* the instructions of function f of the generator
InstructionsOf(f) == generator.functions[f].blocks[1].instructions

(* C22: after generateProgram every function of the IR (top-level functions,
   class methods, lambdas and the synthesized main) has RET as its last
   instruction, for every program the semantic analyzer accepts, programs
   with a func declaration nested in the body of a function included. *)
C22_EveryFunctionEndsWithRet ==
    GeneratedProgram =>
        /\ ~generator.undefined
        /\ \A f \in DOMAIN generator.functions :
              InstructionsOf(f) /= <<>> /\ Last(InstructionsOf(f)).opcode = "RET"

\* C22, what happens for a func nested in a function: finalizeFunction of the
\* inner function leaves no current block, the outer generateFuncDecl reads
\* through the null pointer, the outer function has no RET and the process
\* is killed
C22_NestedFuncReadsNullBlock ==
    /\ lpc = "done" /\ lexer.source = "func f():\n    func g():\n        pass\n"
    /\ apc = "done" /\ analyzer.errors = <<>>
    /\ generator /= Idle /\ generator.undefined
    /\ \E f \in DOMAIN generator.functions :
          generator.functions[f].name = "f" /\ InstructionsOf(f) = <<>>
    /\ driver.pc = "exited" /\ driver.exit_code = 139

\* the instructions end with the value's instruction, a MOV from the value's
\* register to return_register, and RET
EndsWithMovToReturnRegister(instructions, return_register) ==
    LET n == Len(instructions)
    IN  /\ n >= 3
        /\ instructions[n].opcode = "RET"
        /\ return_register /= 0
        /\ instructions[n - 1] =
              InstructionOn("MOV", <<return_register, instructions[n - 2].operands[1]>>)

(* C23: lowering a return statement that has a value, inside a function,
   emits after the instructions of the value a MOV whose destination is the
   return register of the function and whose source is the register that
   holds the value, immediately followed by RET. *)
C23_ReturnMovesToReturnRegister ==
    \A name \in ReturnNames, k \in ReturnLiterals :
        (GeneratedProgram /\ lexer.source = ReturnSource(name, k)) =>
            \E f \in DOMAIN generator.functions :
                /\ generator.functions[f].name = name
                /\ EndsWithMovToReturnRegister(InstructionsOf(f),
                                               generator.functions[f].return_register)

\* C23, what happens for S6: no function is ever given a return register, the
\* value stays in the register of the literal and RET follows at once
C23_NoReturnRegisterNoMov ==
    /\ GeneratedProgram /\ lexer.source = S6
    /\ generator.functions[1].name = "f"
    /\ generator.functions[1].return_register = 0
    /\ InstructionsOf(1) = <<InstructionImmediate("MOV", 1, 0), Instruction("RET")>>

\* the physical registers of kind type that are free
FreePhysical(type) ==
    {i \in 1..16 : ~generator.registers[i].is_allocated /\ generator.registers[i].type = type}

\* optimizeCode has run
Finalized == GeneratedProgram /\ gpc \in {"write", "done"} /\ ~generator.undefined

(* C24: after the finalization pass (performRegisterAllocation, run by
   optimizeCode) every instruction operand that was minted as a virtual
   register (name vN) has the name and the id of the first physical
   register of the same kind that is free at that time, whenever such a
   free physical register exists. *)
C24_VirtualOperandsRebound ==
    Finalized =>
        \A r \in Operands(generator) :
            (r > 16 /\ FreePhysical(generator.registers[r].type) /= {}) =>
                \E p \in FreePhysical(generator.registers[r].type) :
                    /\ \A q \in FreePhysical(generator.registers[r].type) : p <= q
                    /\ generator.registers[r].name = generator.registers[p].name
                    /\ generator.registers[r].id = generator.registers[p].id

\* C24, what happens when the result of 1 + 2 is a virtual register: it is
\* given the kind GENERAL when it is minted, the pass looks for operands of
\* the kind VIRTUAL, and the add is written with v0 although r7 is free
C24_VirtualOperandKeepsItsName ==
    /\ Finalized /\ gpc = "done" /\ lexer.source = SixParameterSource
    /\ 17 \in Operands(generator)
    /\ generator.registers[17].name = "v0" /\ generator.registers[17].type = "GENERAL"
    /\ 8 \in FreePhysical("GENERAL")
    /\ ".s" \in DOMAIN generator.files
    /\ generator.files[".s"][7] = "    add v0, r6, r7"

\* the positions of instructions that hold an instruction of opcode
PositionsOfOpcode(instructions, opcode) ==
    {i \in 1..Len(instructions) : instructions[i].opcode = opcode}

\* the instructions lower one call with n literal arguments: the n values,
\* then n PUSH of their registers, last argument first, one CALL, n POP
IsCallWith(instructions, n) ==
    LET pushes == SelectSeq(instructions, LAMBDA instr : instr.opcode = "PUSH")
        PUSH == PositionsOfOpcode(instructions, "PUSH")
        CALL == PositionsOfOpcode(instructions, "CALL")
        POP == PositionsOfOpcode(instructions, "POP")
    IN  /\ Cardinality(PUSH) = n /\ Cardinality(CALL) = 1 /\ Cardinality(POP) = n
        /\ \A i \in 1..n :
              /\ instructions[i].opcode = "MOV" /\ instructions[i].has_immediate
              /\ pushes[i].operands = <<instructions[n + 1 - i].operands[1]>>
        /\ \A i \in PUSH, c \in CALL, j \in POP : i < c /\ c < j

\* the label of the only CALL of instructions
CallTarget(instructions) ==
    instructions[CHOOSE c \in PositionsOfOpcode(instructions, "CALL") : TRUE].label

(* C25: lowering a call with n arguments inside a function emits exactly n
   PUSH instructions for the argument registers in reverse argument order,
   then one CALL (of _builtin_<name> for a built-in of the generator,
   otherwise of the callee name or register), then exactly n POP
   instructions; so the numbers of PUSH and of POP instructions are equal in
   the IR of every function. *)
C25_CallPushesAndPops ==
    GeneratedProgram /\ ~generator.undefined =>
        /\ \A f \in DOMAIN generator.functions :
              Cardinality(PositionsOfOpcode(InstructionsOf(f), "PUSH"))
                  = Cardinality(PositionsOfOpcode(InstructionsOf(f), "POP"))
        /\ \A callee \in Callees, n \in 0..MaxArgs :
              lexer.source = InnerCallSource(callee, n) =>
                  \E f \in DOMAIN generator.functions :
                      /\ generator.functions[f].name = "f"
                      /\ IsCallWith(InstructionsOf(f), n)
                      /\ CASE callee = "g" -> CallTarget(InstructionsOf(f)) = "g"
                           [] callee = "print" ->
                                 CallTarget(InstructionsOf(f)) = "_builtin_print"
                           [] OTHER ->
                                 \E r \in DOMAIN generator.registers :
                                     CallTarget(InstructionsOf(f))
                                         = generator.registers[r].name

\* C25: g(1, 1) in f is mov r2, mov r3, push r3, push r2, call g, pop, pop
C25_TwoArgumentsPushedLastFirst ==
    /\ GeneratedProgram /\ lexer.source = InnerCallSource("g", 2)
    /\ generator.functions[2].name = "f"
    /\ SubSeq(InstructionsOf(2), 1, 5) =
          <<InstructionImmediate("MOV", 3, 1), InstructionImmediate("MOV", 4, 1),
            InstructionOn("PUSH", <<4>>), InstructionOn("PUSH", <<3>>),
            InstructionLabel("CALL", "g")>>
    /\ InstructionsOf(2)[6].opcode = "POP" /\ InstructionsOf(2)[7].opcode = "POP"

\* the token types an expression statement over identifiers, literals, unary
\* and binary operators stands for, in the order of the source
RECURSIVE Unparse(_), UnparseAll(_)
Unparse(node) ==
    CASE node.type = "EXPRESSION_STMT" -> Unparse(node.expression)
      [] node.type = "IDENTIFIER" -> <<"IDENTIFIER">>
      [] node.type = "LITERAL" -> <<node.literal_type>>
      [] node.type = "UNARY_OP" -> <<node.operator_type>> \o Unparse(node.operand)
      [] node.type = "BINARY_OP" ->
            Unparse(node.left) \o <<node.operator_type>> \o Unparse(node.right)
      [] OTHER -> <<node.type>>

UnparseAll(statements) ==
    IF statements = <<>> THEN <<>>
    ELSE Unparse(Head(statements)) \o UnparseAll(Tail(statements))

\* the types of the tokens of the stream that are not layout
SignificantTokens(toks) ==
    TokenTypes(SelectSeq(toks, LAMBDA t :
        t.type \notin {"NEWLINE", "INDENT", "DEDENT", "EOF_TOKEN"}))

(* C26: when Parser::parse finishes with no parse error recorded, every
   token of the stream other than NEWLINE, INDENT, DEDENT and EOF was
   consumed by a grammar rule and is represented in the AST: no operator,
   delimiter or literal token (a leading '-', '!', '(' or an empty string
   literal at the start of a statement) is skipped without an error. *)
C26_NoTokenSkippedSilently ==
    (ppc = "done" /\ lexer.source \in SkipSources /\ parser.errors = <<>>) =>
        UnparseAll(parser.statements) = SignificantTokens(parser.tokens)

\* C26, what happens for !x: the LOGICAL_NOT token has an empty value, the
\* loop of parse skips it as an empty token, no error is recorded and the
\* AST holds the identifier alone
C26_LeadingNotIsDropped ==
    /\ ppc = "done" /\ lexer.source = "!x\n"
    /\ SignificantTokens(parser.tokens) = <<"LOGICAL_NOT", "IDENTIFIER">>
    /\ parser.errors = <<>>
    /\ parser.statements =
          <<MakeNode("EXPRESSION_STMT",
                     [expression |-> MakeNode("IDENTIFIER", [name |-> "x"])])>>

JumpOpcodes == {"JMP", "JE", "JNE", "JL", "JLE", "JG", "JGE"}

\* the labels that LABEL instructions of instructions define
LabelsDefined(instructions) ==
    {instructions[i].label : i \in PositionsOfOpcode(instructions, "LABEL")}

(* C27: for every program the semantic analyzer accepts, every JMP, JE, JNE,
   JL, JLE, JG or JGE instruction in the IR of a function targets a label
   that a LABEL instruction of the same function defines; this covers the
   jumps of break and continue, a break in a function declared in the body
   of a loop lowered at top level included. *)
C27_JumpTargetsDefined ==
    GeneratedProgram /\ ~generator.undefined =>
        \A f \in DOMAIN generator.functions :
            \A i \in DOMAIN InstructionsOf(f) :
                InstructionsOf(f)[i].opcode \in JumpOpcodes =>
                    InstructionsOf(f)[i].label \in LabelsDefined(InstructionsOf(f))

\* C27, what happens for a function declared in a top-level while whose
\* body is break: the label stack of the loop is still in place, the break
\* becomes a JMP to while_end_1, and no instruction of the loop, its labels
\* included, was emitted, there being no current block at top level
C27_BreakInNestedFuncJumpsNowhere ==
    /\ GeneratedProgram /\ lexer.source = "while true:\n    func f():\n        break\n"
    /\ generator.errors = <<>>
    /\ generator.functions[1].name = "f"
    /\ InstructionsOf(1) = <<InstructionLabel("JMP", "while_end_1"), Instruction("RET")>>
    /\ \A f \in DOMAIN generator.functions : LabelsDefined(InstructionsOf(f)) = {}

\* C27: in a function, break and continue of a while jump to its two labels
C27_BreakInFunctionLoopJumpsToEnd ==
    /\ GeneratedProgram
    /\ lexer.source = "func f():\n    while true:\n        if true:\n            break\n        continue\n"
    /\ \E i \in DOMAIN InstructionsOf(1) :
          InstructionsOf(1)[i] = InstructionLabel("JMP", "while_end_1")
    /\ {"while_loop_0", "while_end_1"} \subseteq LabelsDefined(InstructionsOf(1))

(***************************************************************************)
(* The register pool on its own: allocateRegister and freeRegister called  *)
(* in every order on a generator in which a run of allocateRegister calls  *)
(* has already taken registers.  todo holds the last call: the generator   *)
(* before it, its argument and, for allocateRegister, the register         *)
(* returned; driver counts the calls.                                      *)
(***************************************************************************)
RegisterTypes == {"GENERAL", "FLOAT"}

MaxRegisterOps == 3

\* G after count calls of allocateRegister(type)
RECURSIVE AllocateTimes(_, _, _)
AllocateTimes(G, type, count) ==
    IF count = 0 THEN G
    ELSE AllocateTimes(allocateRegister(G, type).G, type, count - 1)

\* the numbers of GENERAL and of FLOAT registers taken at the start
TakenAtStart == {<<0, 0>>, <<7, 0>>, <<8, 0>>, <<0, 8>>, <<8, 8>>}

InitRegisters ==
    /\ \E taken \in TakenAtStart :
          generator = AllocateTimes(
                          AllocateTimes(CodeGenerator(SemanticAnalyzer, "assembly"),
                                        "GENERAL", taken[1]),
                          "FLOAT", taken[2])
    /\ gpc = "registers" /\ todo = <<>> /\ driver = [calls |-> 0]
    /\ lexer = Idle /\ lpc = "idle" /\ parser = Idle /\ ppc = "idle"
    /\ analyzer = Idle /\ apc = "idle"

RegistersAllocate ==
    /\ gpc = "registers" /\ driver.calls < MaxRegisterOps
    /\ \E type \in RegisterTypes :
          /\ generator' = allocateRegister(generator, type).G
          /\ todo' = <<[call |-> "allocateRegister", before |-> generator, type |-> type,
                        reg |-> allocateRegister(generator, type).reg]>>
    /\ driver' = [calls |-> driver.calls + 1]
    /\ UNCHANGED <<lexer, lpc, parser, ppc, analyzer, apc, gpc>>

\* reg is any register made so far, or the null pointer
RegistersFree ==
    /\ gpc = "registers" /\ driver.calls < MaxRegisterOps
    /\ \E reg \in 0..Len(generator.registers) :
          /\ generator' = freeRegister(generator, reg)
          /\ todo' = <<[call |-> "freeRegister", before |-> generator, type |-> "",
                        reg |-> reg]>>
    /\ driver' = [calls |-> driver.calls + 1]
    /\ UNCHANGED <<lexer, lpc, parser, ppc, analyzer, apc, gpc>>

NextRegisters == RegistersAllocate \/ RegistersFree

SpecRegisters == InitRegisters /\ [][NextRegisters]_vars

\* the registers of available_registers
Physical == 1..16

\* the physical registers of G of a type that are not allocated
FreeOf(G, type) ==
    {i \in Physical : ~G.registers[i].is_allocated /\ G.registers[i].type = type}

(* C28: after any sequence of allocateRegister and freeRegister calls,
   allocated_registers holds exactly the physical registers whose
   is_allocated flag is true, each once; allocateRegister never returns a
   physical register that was allocated, returns the first free physical
   register of the requested kind when there is one, and otherwise a new
   virtual register whose name differs from that of every register made
   before; freeing a register that is not allocated (a second free, a
   virtual register, a null pointer) changes nothing. *)
C28_AllocatedRegistersExact ==
    gpc = "registers" =>
        /\ {generator.allocated_registers[i] : i \in DOMAIN generator.allocated_registers}
              = {r \in DOMAIN generator.registers : generator.registers[r].is_allocated}
        /\ \A i, j \in DOMAIN generator.allocated_registers :
              generator.allocated_registers[i] = generator.allocated_registers[j] => i = j
        /\ \A r \in DOMAIN generator.registers :
              generator.registers[r].is_allocated => r \in Physical
        /\ \A c \in DOMAIN todo :
              LET before == todo[c].before
                  reg == todo[c].reg
              IN  /\ todo[c].call = "allocateRegister" =>
                        /\ reg \in Physical => ~before.registers[reg].is_allocated
                        /\ FreeOf(before, todo[c].type) /= {} =>
                              /\ reg \in FreeOf(before, todo[c].type)
                              /\ \A r \in FreeOf(before, todo[c].type) : reg <= r
                              /\ generator.registers[reg].is_allocated
                        /\ FreeOf(before, todo[c].type) = {} =>
                              /\ reg = Len(before.registers) + 1
                              /\ Len(generator.registers) = reg
                              /\ \A r \in DOMAIN before.registers :
                                    before.registers[r].name /= generator.registers[reg].name
                  /\ (todo[c].call = "freeRegister"
                        /\ (reg = 0 \/ reg \notin Physical
                              \/ ~before.registers[reg].is_allocated)) =>
                        generator = before

\* C28: with the eight GENERAL registers taken, r2 is freed, a call that
\* changes nothing follows, and the next allocateRegister(GENERAL) returns r2
C28_FreedThenReturned ==
    /\ gpc = "registers" /\ todo /= <<>>
    /\ todo[1].call = "allocateRegister" /\ todo[1].type = "GENERAL" /\ todo[1].reg = 3
    /\ Len(todo[1].before.allocated_registers) = 7
    /\ driver.calls = 3
    /\ Len(generator.allocated_registers) = 8

\* C28: with every register of the kind taken, two virtual registers are
\* made one after the other, named v0 and v1
C28_SecondVirtualRegister ==
    /\ gpc = "registers" /\ todo /= <<>>
    /\ todo[1].call = "allocateRegister" /\ todo[1].reg = 18
    /\ generator.registers[17].name = "v0" /\ generator.registers[18].name = "v1"
    /\ Len(generator.allocated_registers) = 8

(* C29: scope entry and exit are balanced on every analysis path: when
   analyze has returned, and after each top-level statement, whatever the
   AST and the errors it raised, current_scope is the global scope, in_loop
   is false, current_function and current_class are empty and
   expected_return_type is void; exitScope on the global scope leaves it in
   place.  States after a read of undefined memory are left out. *)
C29_ScopesBalancedAfterAnalyze ==
    (analyzer /= Idle /\ apc \in {"run", "done"} /\ ~analyzer.undefined) =>
        /\ Len(analyzer.scopes) = 1
        /\ analyzer.in_loop = FALSE
        /\ analyzer.current_function = ""
        /\ analyzer.current_class = ""
        /\ analyzer.expected_return_type = TypeInfo("VOID")
        /\ exitScope(analyzer) = analyzer

\* C29: a function declared in a while loop, followed by a break outside
\* of any loop, has been analyzed, with an error
C29_BalancedAfterErrors ==
    /\ apc = "done" /\ analyzer /= Idle
    /\ lexer.source = "while true:\n    func f():\n        break\nbreak\n"
    /\ analyzer.errors /= <<>>
    /\ "f" \notin DOMAIN analyzer.scopes[1].functions
    /\ Len(analyzer.scopes) = 1 /\ ~analyzer.in_loop /\ analyzer.current_function = ""

(***************************************************************************)
(* SpecImage: compile run with --format executable for each platform, on   *)
(* programs whose machine code is shorter and longer than the room the     *)
(* writers leave between the code offset and the data offset.              *)
(***************************************************************************)
\* count copies of line, one after the other
RECURSIVE Repeat(_, _)
Repeat(line, count) == IF count = 0 THEN "" ELSE line \o Repeat(line, count - 1)

\* the numbers of calls in the body of f: 77 bytes of x86-64 code each
ImageCalls == {1, 3}

ImageSources ==
    {"func f():\n    return 7\n"}
        \cup {"func f():\n" \o Repeat("    print(1, 2, 3, 4, 5, 6, 7, 8)\n", count) :
                   count \in ImageCalls}

ImageOpen ==
    /\ driver.pc = "open"
    /\ \E src \in ImageSources, platform \in Platforms :
          /\ lexer' = Lexer(src)
          /\ driver' = [Announce(driver, 1, "lex") EXCEPT !.format = "EXECUTABLE",
                                                        !.platform = platform]
    /\ lpc' = "scan"
    /\ UNCHANGED <<parser, ppc, analyzer, apc, todo, generator, gpc>>

NextImage ==
    \/ ImageOpen
    \/ LexScanToken \/ LexFinish \/ CompileAfterLex
    \/ ParseStatement \/ ParseFinish \/ CompileAfterParse
    \/ AnalyzeStatement \/ AnalyzeFinish \/ CompileAfterSemantic
    \/ GenerateStatement \/ GenerateMain \/ GenerateOptimize \/ GenerateWrite
    \/ CompileAfterGenerate

SpecImage == InitCompile /\ [][NextImage]_vars

\* generate has written an executable image
ImageWritten ==
    generator /= Idle /\ gpc = "done" /\ "executable" \in DOMAIN generator.files

(* C30: in every executable image written (PE, Mach-O, ELF) the bytes of the
   machine code stand unmodified from the code offset of the container on
   (0x400, 0xf50, 0x1000): what is written after the code, the data and the
   later headers, overwrites no byte of it, for any program. *)
C30_CodeBytesIntact ==
    ImageWritten =>
        \A k \in 1..Len(MachineCode(generator, driver.platform)) :
            generator.files["executable"][CodeOffset(driver.platform) + k - 1]
                = MachineCode(generator, driver.platform)[k]

\* C30, what happens for Linux: after the code, generateLinuxExecutable
\* seeks to 0x1000 again, and the data string lies over the first 38 bytes
\* of the code: 'e' stands where the second byte of mov rax, 7 was written
C30_LinuxDataOverCode ==
    /\ ImageWritten /\ driver.platform = "LINUX_X64"
    /\ lexer.source = "func f():\n    return 7\n"
    /\ MachineCode(generator, "LINUX_X64")
          = <<72, 199, 192, 7, 0, 0, 0, 195, 72, 199, 192, 0, 0, 0, 0, 195>>
    /\ generator.files["executable"][4097] = 101
    /\ \A k \in 1..38 :
          generator.files["executable"][4095 + k]
              = CharArray("Hello, World from GDScript on Linux!\n")[k]

\* C30: a PE image of a program of 16 bytes holds the code at 0x400
C30_WindowsSmallCodeIntact ==
    /\ ImageWritten /\ driver.platform = "WINDOWS_X64"
    /\ lexer.source = "func f():\n    return 7\n"
    /\ \A k \in 1..16 :
          generator.files["executable"][1023 + k]
              = <<72, 199, 192, 7, 0, 0, 0, 195, 72, 199, 192, 0, 0, 0, 0, 195>>[k]

\* C30: the code of eight calls is longer than the 0xb0 bytes between
\* 0xf50 and 0x1000, and the data string of the Mach-O image lies over it
C30_MacOSDataOverLongCode ==
    /\ ImageWritten /\ driver.platform = "MACOS_X64"
    /\ Len(MachineCode(generator, "MACOS_X64")) > 176
    /\ generator.files["executable"][4097] = 101
    /\ MachineCode(generator, "MACOS_X64")[4097 - 3920 + 1] /= 101

====
